---------------------------- MODULE Spec2Model ----------------------------
(***************************************************************************)
(* The call manager of agentcall (package callmanager): the registry of    *)
(* active calls, the per-call conversation log and the four conversation   *)
(* operations InitiateCall, ContinueCall, SpeakToUser and EndCall, plus    *)
(* Initialize and Close.  Every exported method runs on its own goroutine  *)
(* (one per tool invocation); a goroutine is a thread of the model, and a  *)
(* step of a thread is one statement, or one critical section, of the Go   *)
(* code.  The signaling backend, the synthesis and the recognition         *)
(* services are external: each of their answers is a nondeterministic      *)
(* choice.                                                                 *)
(***************************************************************************)
EXTENDS Naturals, Sequences, FiniteSets

(***************************************************************************)
(* Bounds of the model.                                                    *)
(***************************************************************************)
\* operations started over a run, all threads together
MaxOps == 3
\* calls dialed over a run
MaxCalls == 2
\* status polls that fit into the answer wait (wait / poll interval)
MaxPolls == 2
\* recognition events one listen receives while its history is recorded
MaxEvents == 2
\* synthesis chunks one speak receives while its history is recorded
MaxChunks == 3

Threads == {1, 2}
\* a call leg and the CallState built for it share an index: the order of dialing
Legs == 1 .. MaxCalls
\* a call id is identified with the counter value generateCallID put into it
CallIds == 1 .. MaxCalls
\* the message each operation is called with; EndCall's may be empty
Messages(op) ==
    CASE op = "InitiateCall" -> {"hi"}
      [] op = "ContinueCall" -> {"more"}
      [] op = "SpeakToUser" -> {"note"}
      [] OTHER -> {"", "bye"}

\* the transcripts an event can carry
Transcripts == {"", "a", "b"}

\* callsystem.CallStatus values Status() can report
Statuses == {"Ringing", "Answered", "Ended", "Failed", "Busy", "NoAnswer"}

NoErr == "nil"

\* the voice providers a configuration can select
ProviderElevenLabs == "elevenlabs"
ProviderDeepgram == "deepgram"
Providers == {ProviderElevenLabs, ProviderDeepgram}
\* the value of a provider field that was never assigned
NoProvider == "nil"

\* config.Config, as far as the providers go; an API key is TRUE if it is
\* not the empty string
Configs ==
    [TTSProvider : Providers, STTProvider : Providers,
     ElevenLabsAPIKey : BOOLEAN, DeepgramAPIKey : BOOLEAN]

\* config.DefaultConfig() with the API keys of both providers in the
\* environment
DefaultConfig ==
    [TTSProvider |-> ProviderElevenLabs, STTProvider |-> ProviderDeepgram,
     ElevenLabsAPIKey |-> TRUE, DeepgramAPIKey |-> TRUE]

NeedsElevenLabs(c) ==
    c.TTSProvider = ProviderElevenLabs \/ c.STTProvider = ProviderElevenLabs

NeedsDeepgram(c) ==
    c.TTSProvider = ProviderDeepgram \/ c.STTProvider = ProviderDeepgram

\* Config.Validate() returns nil, as far as the providers go
Validate(c) ==
    /\ NeedsElevenLabs(c) => c.ElevenLabsAPIKey
    /\ NeedsDeepgram(c) => c.DeepgramAPIKey

VARIABLES
    callSystem,       \* Manager.callSystem is set (non-nil)
    config,           \* Manager.config
    ttsProvider,      \* Manager.ttsProvider: the provider it holds, or NoProvider
    sttProvider,      \* Manager.sttProvider: the provider it holds, or NoProvider
    publicURL,        \* Initialize has been called
    calls,            \* Manager.calls: call id -> CallState (0: no entry)
    callsMu,          \* Manager.callsMu: 0, or the thread holding the write lock
    evicted,          \* history: the call ids that have been taken out of calls
    callCounter,      \* Manager.callCounter
    nDialed,          \* call legs the signaling backend has created
    ID,               \* CallState.ID of each CallState (0: not yet built)
    Conversation,     \* CallState.Conversation
    LastUserMessage,  \* CallState.LastUserMessage
    mu,               \* CallState.mu: 0, or the thread holding it
    leg,              \* the backend's call legs: "none", "ringing", "answered", "ended"
    hangups,          \* how often Hangup was invoked on each leg
    th,               \* the goroutines: position and local variables
    fwd,              \* the audio-forwarding goroutines started by listen
    lockOrder,        \* per CallState, the turns in the order AddTurn took mu
    opsStarted,       \* operations started so far
    serialized,       \* the callers issue one operation at a time
    recording         \* the history of each operation is recorded in its locals

vars == <<config, callSystem, ttsProvider, sttProvider, publicURL, calls, callsMu,
          evicted,
          callCounter, nDialed, ID, Conversation, LastUserMessage, mu, leg,
          hangups, th, fwd, lockOrder, opsStarted, serialized, recording>>

providerVars == <<config, callSystem, ttsProvider, sttProvider, publicURL>>
sessionVars == <<Conversation, LastUserMessage, mu, lockOrder>>
legVars == <<leg, hangups>>
idVars == <<callCounter, nDialed, ID>>
registryVars == <<calls, callsMu, evicted>>
modeVars == <<serialized, recording>>

(***************************************************************************)
(* A goroutine's locals.  pc "idle" is a goroutine running no operation,   *)
(* pc "done" one whose operation has returned (err, response, state hold   *)
(* what it returned).                                                      *)
(***************************************************************************)
IdleThread ==
    [pc |-> "idle", op |-> "none", callID |-> 0, call |-> 0, state |-> 0,
     message |-> "", polls |-> 0, transcript |-> "", err |-> NoErr,
     response |-> "", role |-> "", content |-> "", retpc |-> "",
     pending |-> {}, ctxDone |-> FALSE, heard |-> <<>>, effects |-> {},
     got |-> <<>>, sent |-> <<>>]

\* a forwarding goroutine blocked in audioOut.Read: the call it reads from,
\* the thread whose listen started it (0 once that listen has returned) and
\* whether its audioCtx is cancelled
Forwarder(k, t, c) == [call |-> k, owner |-> t, cancelled |-> c]

InitBase ==
    /\ callSystem = FALSE
    /\ ttsProvider = NoProvider
    /\ sttProvider = NoProvider
    /\ publicURL = FALSE
    /\ calls = [i \in CallIds |-> 0]
    /\ callsMu = 0
    /\ evicted = {}
    /\ callCounter = 0
    /\ nDialed = 0
    /\ ID = [k \in Legs |-> 0]
    /\ Conversation = [k \in Legs |-> <<>>]
    /\ LastUserMessage = [k \in Legs |-> ""]
    /\ mu = [k \in Legs |-> 0]
    /\ leg = [k \in Legs |-> "none"]
    /\ hangups = [k \in Legs |-> 0]
    /\ th = [t \in Threads |-> IdleThread]
    /\ fwd = {}
    /\ lockOrder = [k \in Legs |-> <<>>]
    /\ opsStarted = 0

\* New(cfg): an empty registry and no providers; calls may overlap
Init ==
    InitBase /\ config = DefaultConfig /\ serialized = FALSE /\ recording = FALSE

\* the same manager with callers that issue one operation at a time; the
\* history of the running operation is kept in its locals: effects, what it
\* has done so far, heard, the recognition events its listen has received,
\* and got and sent, the chunks its speak has received and the frames it has
\* passed to the sink's Write
SeqInit ==
    InitBase /\ config = DefaultConfig /\ serialized = TRUE /\ recording = TRUE

(***************************************************************************)
(* Helpers.                                                                *)
(***************************************************************************)
\* a caller may start an operation on thread t
CanBegin(t) ==
    /\ th[t].pc = "idle"
    /\ opsStarted < MaxOps
    /\ serialized => \A u \in Threads : th[u].pc = "idle"
    \* the threads are interchangeable: the lowest idle one takes the operation
    /\ \A u \in Threads : u < t => th[u].pc # "idle"

\* the locals of a goroutine entering op
Entered(op, id, m) ==
    [IdleThread EXCEPT !.op = op, !.callID = id, !.message = m]

\* ctx is not looked at again on the path r is on: unless the history is
\* recorded, the flag is dropped
CtxDead(r) == IF recording THEN r ELSE [r EXCEPT !.ctxDone = FALSE]

\* a goroutine whose operation returns err (and response r)
Returned(r, e, resp) ==
    CtxDead([r EXCEPT !.pc = "done", !.err = e, !.response = resp, !.polls = 0,
                      !.role = "", !.content = "", !.retpc = "",
                      !.pending = {}])

\* history: the operation has done e
Effect(r, e) == IF recording THEN [r EXCEPT !.effects = @ \cup {e}] ELSE r

\* mutant of getCall: a missing id yields the session of another entry
getCallAny(id) ==
    IF calls[id] # 0 \/ \A i \in CallIds : calls[i] = 0 THEN calls[id]
    ELSE calls[CHOOSE i \in CallIds : calls[i] # 0]

\* getCall: the registry lookup, under the read lock
getCall(id) == calls[id]

\* the registry lock can be taken (no writer holds it)
CallsMuFree == callsMu = 0

Registered == {i \in CallIds : calls[i] # 0}


(***************************************************************************)
(* Initialize: the three providers are created in turn; a failure returns  *)
(* at once and leaves the providers created before it in place.  The TTS   *)
(* provider it creates is the ElevenLabs one and the STT provider the      *)
(* Deepgram one.                                                           *)
(***************************************************************************)
InitializeOutcomes == {"callsystem failed", "tts failed", "stt failed", "ok"}

Initialize ==
    /\ ~publicURL
    /\ publicURL' = TRUE
    /\ \E outcome \in InitializeOutcomes :
        /\ callSystem' = (outcome # "callsystem failed")
        /\ ttsProvider' = IF outcome \in {"stt failed", "ok"}
                          THEN ProviderElevenLabs ELSE NoProvider
        /\ sttProvider' = IF outcome = "ok" THEN ProviderDeepgram ELSE NoProvider
    /\ UNCHANGED <<config, registryVars, idVars, sessionVars, legVars, th, fwd,
                   opsStarted, modeVars>>

(***************************************************************************)
(* The signaling backend.                                                  *)
(***************************************************************************)
TerminalStatuses == {"Ended", "Failed", "Busy", "NoAnswer"}

\* what Status() can report for leg k
StatusOf(k) ==
    CASE leg[k] = "ended" -> TerminalStatuses
      [] leg[k] = "answered" -> {"Answered"}
      [] OTHER -> Statuses

\* Call.Hangup on leg k, succeeding (ok) or returning an error
Hangup(k, ok) ==
    /\ hangups' = [hangups EXCEPT ![k] = @ + 1]
    /\ leg' = [leg EXCEPT ![k] = IF ok THEN "ended" ELSE @]

(***************************************************************************)
(* CallState.AddTurn(role, content): Lock, append, set LastUserMessage,    *)
(* Unlock.  A goroutine calls it by moving to "at_lock" with role, content *)
(* and the position to return to.                                          *)
(***************************************************************************)
Turn(role, content) == [Role |-> role, Content |-> content]

CallAddTurn(r, role, content, retpc) ==
    [r EXCEPT !.pc = "at_lock", !.role = role, !.content = content,
              !.retpc = retpc]

\* mutant of MuFree: Lock does not wait for the holder
MuFreeNoWait(k) == mu[k] \in {0} \cup Threads

\* cs.mu.Lock() succeeds only while no goroutine holds cs.mu
MuFree(k) == mu[k] = 0

\* mutant of AppendTurn: the turn is appended as a user turn whatever its role
AppendTurnAsUser(conv, role, content) == Append(conv, Turn("user", content))

\* mutant of AppendTurn: the turn is put at the head of the log
PrependTurn(conv, role, content) == <<Turn(role, content)>> \o conv

\* append(cs.Conversation, ConversationTurn{...})
AppendTurn(conv, role, content) == Append(conv, Turn(role, content))

AddTurnLock(t) ==
    LET k == th[t].state IN
    /\ th[t].pc = "at_lock"
    /\ MuFree(k)
    /\ mu' = [mu EXCEPT ![k] = t]
    /\ lockOrder' = [lockOrder EXCEPT ![k] = Append(@, Turn(th[t].role, th[t].content))]
    /\ th' = [th EXCEPT ![t].pc = "at_append"]
    /\ UNCHANGED <<providerVars, registryVars, idVars, Conversation,
                   LastUserMessage, legVars, fwd, opsStarted, modeVars>>

AddTurnAppend(t) ==
    LET k == th[t].state IN
    /\ th[t].pc = "at_append"
    /\ Conversation' = [Conversation EXCEPT
                           ![k] = AppendTurn(@, th[t].role, th[t].content)]
    /\ th' = [th EXCEPT ![t] = Effect([@ EXCEPT !.pc = "at_unlock"], "turn")]
    /\ UNCHANGED <<providerVars, registryVars, idVars, LastUserMessage, mu,
                   lockOrder, legVars, fwd, opsStarted, modeVars>>

\* mutant of AddTurnUnlock: AddTurn returns without the Unlock
AddTurnUnlockKeeps(t) ==
    LET k == th[t].state IN
    /\ th[t].pc = "at_unlock"
    /\ LastUserMessage' = IF th[t].role = "user"
                          THEN [LastUserMessage EXCEPT ![k] = th[t].content]
                          ELSE LastUserMessage
    /\ mu' = mu
    /\ th' = [th EXCEPT ![t] = [@ EXCEPT !.pc = th[t].retpc, !.role = "",
                                         !.content = "", !.retpc = ""]]
    /\ UNCHANGED <<providerVars, registryVars, idVars, Conversation,
                   lockOrder, legVars, fwd, opsStarted, modeVars>>

\* mutant of AddTurnUnlock: LastUserMessage is set for a turn of any role
AddTurnUnlockAnyRole(t) ==
    LET k == th[t].state IN
    /\ th[t].pc = "at_unlock"
    /\ LastUserMessage' = [LastUserMessage EXCEPT ![k] = th[t].content]
    /\ mu' = [mu EXCEPT ![k] = 0]
    /\ th' = [th EXCEPT ![t] = [@ EXCEPT !.pc = th[t].retpc, !.role = "",
                                         !.content = "", !.retpc = ""]]
    /\ UNCHANGED <<providerVars, registryVars, idVars, Conversation,
                   lockOrder, legVars, fwd, opsStarted, modeVars>>

AddTurnUnlock(t) ==
    LET k == th[t].state IN
    /\ th[t].pc = "at_unlock"
    /\ LastUserMessage' = IF th[t].role = "user"
                          THEN [LastUserMessage EXCEPT ![k] = th[t].content]
                          ELSE LastUserMessage
    /\ mu' = [mu EXCEPT ![k] = 0]
    /\ th' = [th EXCEPT ![t] = [@ EXCEPT !.pc = th[t].retpc, !.role = "",
                                         !.content = "", !.retpc = ""]]
    /\ UNCHANGED <<providerVars, registryVars, idVars, Conversation,
                   lockOrder, legVars, fwd, opsStarted, modeVars>>

(***************************************************************************)
(* speak(state, message).                                                  *)
(***************************************************************************)
\* mutant of EnterSpeak: speak goes to the transport without recording
EnterSpeakUnrecorded(r) == [r EXCEPT !.pc = "sp_transport"]

\* speak's first statement: state.AddTurn("assistant", message)
EnterSpeak(r) == CallAddTurn(r, "assistant", r.message, "sp_transport")

\* mutant of SpeakDone: InitiateCall gives up the call when speak fails
SpeakDoneGivesUp(r, e) ==
    CASE r.op = "SpeakToUser" -> Returned(r, e, "")
      [] r.op = "EndCall" -> CtxDead([r EXCEPT !.pc = "ec_hangup"])
      [] OTHER -> IF e # NoErr
                  THEN IF r.op = "InitiateCall"
                       THEN CtxDead([r EXCEPT !.pc = "ic_hangup"])
                       ELSE Returned(r, e, "")
                  ELSE [r EXCEPT !.pc = "ls_transport"]

\* mutant of SpeakDone: every operation listens after a successful speak
SpeakDoneListens(r, e) ==
    IF r.op = "EndCall" THEN CtxDead([r EXCEPT !.pc = "ec_hangup"])
    ELSE IF e # NoErr THEN Returned(r, e, "")
    ELSE [r EXCEPT !.pc = "ls_transport"]

\* mutant of SpeakDone: EndCall returns the error of its final speech-out
SpeakDoneStrict(r, e) ==
    CASE r.op = "SpeakToUser" -> Returned(r, e, "")
      [] r.op = "EndCall" -> IF e # NoErr THEN Returned(r, e, "")
                             ELSE CtxDead([r EXCEPT !.pc = "ec_hangup"])
      [] OTHER -> IF e # NoErr THEN Returned(r, e, "")
                  ELSE [r EXCEPT !.pc = "ls_transport"]

\* mutant of SpeakDone: speakAndListen listens whatever speak returned
SpeakDoneListensAnyway(r, e) ==
    CASE r.op = "SpeakToUser" -> Returned(r, e, "")
      [] r.op = "EndCall" -> CtxDead([r EXCEPT !.pc = "ec_hangup"])
      [] OTHER -> [r EXCEPT !.pc = "ls_transport"]

\* where the caller of speak goes when speak returns e
SpeakDone(r, e) ==
    CASE r.op = "SpeakToUser" -> Returned(r, e, "")
      [] r.op = "EndCall" -> CtxDead([r EXCEPT !.pc = "ec_hangup"])
      [] OTHER -> IF e # NoErr THEN Returned(r, e, "")
                  ELSE [r EXCEPT !.pc = "ls_transport"]

\* transport := state.Call.Transport(); nil fails the speak
SpeakTransport(t) ==
    /\ th[t].pc = "sp_transport"
    /\ \E transport \in BOOLEAN :
        th' = [th EXCEPT ![t] =
                 IF transport
                 THEN Effect([@ EXCEPT !.pc = "sp_synth"], "transport")
                 ELSE SpeakDone(Effect(@, "transport"), "no transport")]
    /\ UNCHANGED <<providerVars, registryVars, idVars, sessionVars, legVars,
                   fwd, opsStarted, modeVars>>

\* m.ttsProvider.SynthesizeStream(...): a nil provider panics
SpeakSynthesize(t) ==
    /\ th[t].pc = "sp_synth"
    /\ IF ttsProvider = NoProvider
       THEN th' = [th EXCEPT ![t] = Returned(@, "panic", "")]
       ELSE \E ok \in BOOLEAN :
             th' = [th EXCEPT ![t] =
                      IF ok
                      THEN Effect([@ EXCEPT !.pc = "sp_stream"], "synth")
                      ELSE SpeakDone(Effect(@, "synth"), "TTS synthesis failed")]
    /\ UNCHANGED <<providerVars, registryVars, idVars, sessionVars, legVars,
                   fwd, opsStarted, modeVars>>

\* the audio bytes a chunk can carry ("" is no bytes)
AudioData == {"", "x", "y"}

\* what the synthesis stream delivers next: a chunk, or its close
Chunks == [Audio : AudioData, IsFinal : BOOLEAN, Error : BOOLEAN]

\* the chunks the synthesizer delivers: where no history is recorded, one
\* non-empty audio stands for all
Delivered == IF recording THEN Chunks ELSE {c \in Chunks : c.Audio # "y"}

\* history: the speak has received chunk
Got(r, chunk) == IF recording THEN [r EXCEPT !.got = Append(@, chunk)] ELSE r

\* history: the speak has called audioIn.Write(audio)
Sent(r, audio) ==
    Effect(IF recording THEN [r EXCEPT !.sent = Append(@, audio)] ELSE r, "write")

\* the history of a speak is kept up to the return of its operation; an
\* operation that goes on after its speak drops it
Leave(r) ==
    IF r.pc \in {"sp_stream", "done"} THEN r
    ELSE [r EXCEPT !.got = <<>>, !.sent = <<>>]

\* mutant of OnChunk: the final mark of a chunk does not end the loop
OnChunkIgnoresFinal(r, chunk, written) ==
    LET seen == Got(r, chunk)
    IN IF chunk.Error THEN SpeakDone(seen, "TTS stream error")
       ELSE IF chunk.Audio # "" /\ ~written
            THEN SpeakDone(Sent(seen, chunk.Audio), "failed to write audio")
       ELSE IF chunk.Audio # "" THEN Sent(seen, chunk.Audio) ELSE seen

\* the body of `for chunk := range stream` for one chunk; written: the
\* Write of its audio, if there is one, returns no error
OnChunk(r, chunk, written) ==
    LET seen == Got(r, chunk)
    IN IF chunk.Error THEN SpeakDone(seen, "TTS stream error")
       ELSE IF chunk.Audio # "" /\ ~written
            THEN SpeakDone(Sent(seen, chunk.Audio), "failed to write audio")
       ELSE LET after == IF chunk.Audio # "" THEN Sent(seen, chunk.Audio) ELSE seen
            IN IF chunk.IsFinal THEN SpeakDone(after, NoErr) ELSE after

\* one iteration of `for chunk := range stream`
SpeakStream(t) ==
    /\ th[t].pc = "sp_stream"
    /\ \/ \* the stream is closed: the loop ends
          th' = [th EXCEPT ![t] = Leave(SpeakDone(@, NoErr))]
       \/ /\ Len(th[t].got) < MaxChunks
          /\ \E chunk \in Delivered, written \in BOOLEAN :
               th' = [th EXCEPT ![t] = Leave(OnChunk(@, chunk, written))]
    /\ UNCHANGED <<providerVars, registryVars, idVars, sessionVars, legVars,
                   fwd, opsStarted, modeVars>>

(***************************************************************************)
(* listen(state).                                                          *)
(***************************************************************************)
\* mutant of ListenDone: a listen that failed has its session removed
ListenDoneEvicts(r, e) ==
    IF e # NoErr THEN CtxDead([r EXCEPT !.pc = "ec_remove", !.err = e])
    ELSE CtxDead([r EXCEPT !.pc = "ls_ret", !.err = e])

\* listen returns to speakAndListen, which returns to the operation:
\* ("", err) on an error, (response, nil) otherwise
ListenDone(r, e) == CtxDead([r EXCEPT !.pc = "ls_ret", !.err = e])

\* transport := state.Call.Transport(); nil fails the listen
ListenTransport(t) ==
    /\ th[t].pc = "ls_transport"
    /\ \E transport \in BOOLEAN :
        th' = [th EXCEPT ![t] =
                 IF transport THEN [@ EXCEPT !.pc = "ls_start"]
                 ELSE Returned(@, "no transport", "")]
    /\ UNCHANGED <<providerVars, registryVars, idVars, sessionVars, legVars,
                   fwd, opsStarted, modeVars>>

\* m.sttProvider.TranscribeStream(...), then `go func` and time.NewTimer
ListenStart(t) ==
    /\ th[t].pc = "ls_start"
    /\ IF sttProvider = NoProvider
       THEN /\ th' = [th EXCEPT ![t] = Returned(@, "panic", "")]
            /\ fwd' = fwd
       ELSE \E ok \in BOOLEAN :
             IF ok
             THEN /\ fwd' = IF th[t].ctxDone THEN fwd
                            ELSE fwd \cup {Forwarder(th[t].state, t, FALSE)}
                  /\ th' = [th EXCEPT ![t] =
                              Effect(Effect([@ EXCEPT !.pc = "ls_loop",
                                                      !.transcript = ""],
                                            "recog"), "fwd")]
             ELSE /\ th' = [th EXCEPT ![t] =
                              Returned(Effect(@, "recog"),
                                       "failed to start transcription", "")]
                  /\ fwd' = fwd
    /\ UNCHANGED <<providerVars, registryVars, idVars, sessionVars, legVars,
                   opsStarted, modeVars>>

\* mutant of Resolve: the user turn is recorded also when the text is empty
ResolveRecordsEmpty(r) ==
    CallAddTurn(CtxDead([r EXCEPT !.err = NoErr]), "user", r.transcript, "ls_ret")

\* the resolution shared by the timer case and the closed-stream case
Resolve(r) ==
    IF r.transcript # ""
    THEN CallAddTurn(CtxDead([r EXCEPT !.err = NoErr]), "user", r.transcript,
                     "ls_ret")
    ELSE ListenDone(r, NoErr)

\* case <-ctx.Done(): return transcript, ctx.Err()
ListenCancelled(t) ==
    /\ th[t].pc = "ls_loop"
    /\ th[t].ctxDone
    /\ th' = [th EXCEPT ![t] = ListenDone(@, "context canceled")]
    /\ UNCHANGED <<providerVars, registryVars, idVars, sessionVars, legVars,
                   fwd, opsStarted, modeVars>>

\* mutant of ListenTimeout: the timer case leaves listen in its loop
ListenTimeoutIgnored(t) ==
    /\ th[t].pc = "ls_loop"
    /\ UNCHANGED vars

\* case <-timer.C: the timer set to TranscriptTimeoutMS has fired
ListenTimeout(t) ==
    /\ th[t].pc = "ls_loop"
    /\ th' = [th EXCEPT ![t] = Resolve(@)]
    /\ UNCHANGED <<providerVars, registryVars, idVars, sessionVars, legVars,
                   fwd, opsStarted, modeVars>>

\* case event, ok := <-events with ok false: the stream is closed
ListenClosed(t) ==
    /\ th[t].pc = "ls_loop"
    /\ th' = [th EXCEPT ![t] = Resolve(@)]
    /\ UNCHANGED <<providerVars, registryVars, idVars, sessionVars, legVars,
                   fwd, opsStarted, modeVars>>

\* stt.StreamEvent as listen reads it
Events == [Transcript : Transcripts, IsFinal : BOOLEAN, Error : BOOLEAN]

\* the events the recognizer emits: where no history is recorded, one
\* non-empty transcript stands for all
Emitted == IF recording THEN Events ELSE {e \in Events : e.Transcript # "b"}

\* mutant of Candidate: every fragment replaces the candidate
CandidateLatest(transcript, event) == event.Transcript

\* the candidate after a non-resolving event
Candidate(transcript, event) ==
    IF event.Transcript # "" THEN event.Transcript ELSE transcript

\* history: the listen has received event
Heard(r, event) == IF recording THEN [r EXCEPT !.heard = Append(@, event)] ELSE r

\* mutant of OnEvent: every final event resolves the listen, with or
\* without text
OnEventAnyFinal(r, event) ==
    IF event.Error THEN ListenDone(Heard(r, event), "recognition error")
    ELSE LET seen == Heard(r, event)
         IN IF event.IsFinal
            THEN Resolve([seen EXCEPT !.transcript = event.Transcript])
            ELSE [seen EXCEPT !.transcript = Candidate(@, event)]

\* mutant of OnEvent: the event's error is looked at after its transcript
OnEventErrorAfterFinal(r, event) ==
    LET seen == Heard(r, event)
    IN IF event.IsFinal /\ event.Transcript # ""
       THEN CallAddTurn(CtxDead([seen EXCEPT !.transcript = event.Transcript,
                                             !.err = NoErr]),
                        "user", event.Transcript, "ls_ret")
       ELSE IF event.Error THEN ListenDone(seen, "recognition error")
       ELSE [seen EXCEPT !.transcript = Candidate(@, event)]

\* the locals of listen after it has received event
OnEvent(r, event) ==
    IF event.Error THEN ListenDone(Heard(r, event), "recognition error")
    ELSE LET seen == Heard(r, event)
         IN IF event.IsFinal /\ event.Transcript # ""
            THEN CallAddTurn(CtxDead([seen EXCEPT !.transcript = event.Transcript,
                                                  !.err = NoErr]),
                             "user", event.Transcript, "ls_ret")
            ELSE [seen EXCEPT !.transcript = Candidate(@, event)]

\* case event, ok := <-events with ok true
ListenEvent(t) ==
    /\ th[t].pc = "ls_loop"
    /\ Len(th[t].heard) < MaxEvents
    /\ \E event \in Emitted : th' = [th EXCEPT ![t] = OnEvent(@, event)]
    /\ UNCHANGED <<providerVars, registryVars, idVars, sessionVars, legVars,
                   fwd, opsStarted, modeVars>>

\* mutant of ListenReturn: speakAndListen passes listen's text on with the error
ListenReturnPartial(t) ==
    /\ th[t].pc = "ls_ret"
    /\ fwd' = IF recording
              THEN {IF f.owner = t THEN Forwarder(f.call, 0, TRUE) ELSE f : f \in fwd}
              ELSE {f \in fwd : f.owner # t}
    /\ th' = [th EXCEPT ![t] = Returned(@, th[t].err, th[t].transcript)]
    /\ UNCHANGED <<providerVars, registryVars, idVars, sessionVars, legVars,
                   opsStarted, modeVars>>

\* listen returns: the deferred timer.Stop(), audioCancel() and
\* writer.Close() run, and speakAndListen hands the result to the operation.
\* The forwarding goroutine is left behind with its context cancelled; it
\* touches no state of the manager, and is followed further only where the
\* history is recorded.
ListenReturn(t) ==
    /\ th[t].pc = "ls_ret"
    /\ fwd' = IF recording
              THEN {IF f.owner = t THEN Forwarder(f.call, 0, TRUE) ELSE f : f \in fwd}
              ELSE {f \in fwd : f.owner # t}
    /\ th' = [th EXCEPT ![t] =
                Returned(@, th[t].err,
                         IF th[t].err = NoErr THEN th[t].transcript ELSE "")]
    /\ UNCHANGED <<providerVars, registryVars, idVars, sessionVars, legVars,
                   opsStarted, modeVars>>

(***************************************************************************)
(* The forwarding goroutine of a listen: select on audioCtx.Done(), else   *)
(* a blocking audioOut.Read and a writer.Write of what was read.  It is    *)
(* started blocked in Read unless its context is already cancelled.        *)
(***************************************************************************)
\* audioOut.Read returns in goroutine f: an error ends it; data is written
\* to the recognizer, and the select that follows ends it if audioCtx is done
FwdRead(f) ==
    /\ f \in fwd
    /\ \E data \in BOOLEAN :
        fwd' = IF data /\ ~f.cancelled THEN fwd ELSE fwd \ {f}
    /\ UNCHANGED <<providerVars, registryVars, idVars, sessionVars, legVars,
                   th, opsStarted, modeVars>>

(***************************************************************************)
(* InitiateCall(ctx, message).                                             *)
(***************************************************************************)
BeginInitiateCall(t) ==
    /\ CanBegin(t)
    /\ nDialed < MaxCalls
    /\ opsStarted' = opsStarted + 1
    /\ \E m \in Messages("InitiateCall") :
        th' = [th EXCEPT ![t] =
                 IF ~callSystem
                 THEN Returned(Entered("InitiateCall", 0, m), "not initialized", "")
                 ELSE [Entered("InitiateCall", 0, m) EXCEPT !.pc = "ic_dial"]]
    /\ UNCHANGED <<providerVars, registryVars, idVars, sessionVars, legVars,
                   fwd, modeVars>>

\* mutant of MakeCall: a dial that failed is tried again
MakeCallRetries(t) ==
    /\ th[t].pc = "ic_dial"
    /\ \/ /\ th' = [th EXCEPT ![t] = Effect(@, "dial")]
          /\ "dial" \notin th[t].effects
          /\ UNCHANGED <<nDialed, leg>>
       \/ /\ nDialed < MaxCalls
          /\ nDialed' = nDialed + 1
          /\ leg' = [leg EXCEPT ![nDialed + 1] = "ringing"]
          /\ th' = [th EXCEPT ![t] =
                      Effect([@ EXCEPT !.pc = "ic_genid", !.call = nDialed + 1],
                             "dial")]
    /\ UNCHANGED <<providerVars, registryVars, callCounter, ID, sessionVars,
                   hangups, fwd, opsStarted, modeVars>>

\* call, err := m.callSystem.MakeCall(ctx, ...)
MakeCall(t) ==
    /\ th[t].pc = "ic_dial"
    /\ \/ /\ th' = [th EXCEPT ![t] = Returned(@, "failed to make call", "")]
          /\ UNCHANGED <<nDialed, leg>>
       \/ /\ nDialed < MaxCalls
          /\ nDialed' = nDialed + 1
          /\ leg' = [leg EXCEPT ![nDialed + 1] = "ringing"]
          /\ th' = [th EXCEPT ![t] =
                      Effect([@ EXCEPT !.pc = "ic_genid", !.call = nDialed + 1],
                             "dial")]
    /\ UNCHANGED <<providerVars, registryVars, callCounter, ID, sessionVars,
                   hangups, fwd, opsStarted, modeVars>>

\* mutant of GenerateCallID: the counter is read but not incremented
GenerateCallIDStale(t) ==
    /\ th[t].pc = "ic_genid"
    /\ callCounter' = callCounter
    /\ ID' = [ID EXCEPT ![th[t].call] = callCounter + 1]
    /\ th' = [th EXCEPT ![t] = [@ EXCEPT !.pc = "ic_store",
                                         !.callID = callCounter + 1,
                                         !.state = th[t].call]]
    /\ UNCHANGED <<providerVars, registryVars, nDialed, sessionVars, legVars,
                   fwd, opsStarted, modeVars>>

\* mutant of GenerateCallID: the lowest id that is free in the registry is
\* given out again
GenerateCallIDReuses(t) ==
    LET free == {i \in CallIds : calls[i] = 0}
        id == IF free # {} THEN CHOOSE i \in free : \A j \in free : i <= j
              ELSE callCounter + 1
    IN /\ th[t].pc = "ic_genid"
       /\ callCounter' = callCounter + 1
       /\ ID' = [ID EXCEPT ![th[t].call] = id]
       /\ th' = [th EXCEPT ![t] = [@ EXCEPT !.pc = "ic_store", !.callID = id,
                                            !.state = th[t].call]]
       /\ UNCHANGED <<providerVars, registryVars, nDialed, sessionVars, legVars,
                      fwd, opsStarted, modeVars>>

\* callID := m.generateCallID(); state := &CallState{ID: callID, Call: call}
GenerateCallID(t) ==
    /\ th[t].pc = "ic_genid"
    /\ callCounter' = callCounter + 1
    /\ ID' = [ID EXCEPT ![th[t].call] = callCounter + 1]
    /\ th' = [th EXCEPT ![t] = [@ EXCEPT !.pc = "ic_store",
                                         !.callID = callCounter + 1,
                                         !.state = th[t].call]]
    /\ UNCHANGED <<providerVars, registryVars, nDialed, sessionVars, legVars,
                   fwd, opsStarted, modeVars>>

\* mutant of StoreCall: the registry lock is kept over the answer wait
StoreCallHolds(t) ==
    /\ th[t].pc = "ic_store"
    /\ CallsMuFree
    /\ calls' = [calls EXCEPT ![th[t].callID] = th[t].state]
    /\ callsMu' = t
    /\ evicted' = evicted
    /\ th' = [th EXCEPT ![t] = Effect([@ EXCEPT !.pc = "ic_wait"], "insert")]
    /\ UNCHANGED <<providerVars, idVars, sessionVars, legVars, fwd,
                   opsStarted, modeVars>>

\* m.callsMu.Lock(); m.calls[callID] = state; m.callsMu.Unlock()
StoreCall(t) ==
    /\ th[t].pc = "ic_store"
    /\ CallsMuFree
    /\ calls' = [calls EXCEPT ![th[t].callID] = th[t].state]
    /\ evicted' = evicted
    /\ th' = [th EXCEPT ![t] = Effect([@ EXCEPT !.pc = "ic_wait"], "insert")]
    /\ UNCHANGED <<providerVars, callsMu, idVars, sessionVars, legVars, fwd,
                   opsStarted, modeVars>>

\* mutant of BeforeDeadline: the loop's condition never turns false
NoDeadline(polls) == TRUE

\* time.Now().Before(deadline): the wait has not yet used up its polls
BeforeDeadline(polls) == polls < MaxPolls

\* mutant of Answered: the greeting is spoken whatever the wait returned
AnsweredOrNot(r, answered) == EnterSpeak([r EXCEPT !.polls = 0])

\* waitForAnswer returned answered: InitiateCall goes on to, or gives up on, the call
Answered(r, answered) ==
    IF answered THEN EnterSpeak([r EXCEPT !.polls = 0])
    ELSE CtxDead([r EXCEPT !.pc = "ic_hangup", !.polls = 0])

\* one iteration of waitForAnswer's loop, or its end at the deadline
WaitForAnswer(t) ==
    LET k == th[t].call IN
    /\ th[t].pc = "ic_wait"
    /\ IF ~BeforeDeadline(th[t].polls)
       THEN th' = [th EXCEPT ![t] = Answered(@, FALSE)] /\ leg' = leg
       ELSE IF th[t].ctxDone
       THEN th' = [th EXCEPT ![t] = Answered(@, FALSE)] /\ leg' = leg
       ELSE \E status \in StatusOf(k) :
             IF status = "Answered"
             THEN /\ th' = [th EXCEPT ![t] = Answered(@, TRUE)]
                  /\ leg' = [leg EXCEPT ![k] = "answered"]
             ELSE IF status \in TerminalStatuses
             THEN /\ th' = [th EXCEPT ![t] = Answered(@, FALSE)]
                  /\ leg' = [leg EXCEPT ![k] = "ended"]
             ELSE /\ th' = [th EXCEPT ![t].polls = @ + 1]
                  /\ leg' = leg
    /\ UNCHANGED <<providerVars, registryVars, idVars, sessionVars, hangups,
                   fwd, opsStarted, modeVars>>

\* mutant of HangupUnanswered: an error of the Hangup is returned at once
HangupUnansweredStrict(t) ==
    /\ th[t].pc = "ic_hangup"
    /\ \E ok \in BOOLEAN :
        /\ Hangup(th[t].call, ok)
        /\ th' = [th EXCEPT ![t] =
                    IF ok THEN Effect([@ EXCEPT !.pc = "ic_remove"], "hangup")
                    ELSE Returned(Effect(@, "hangup"), "call not answered", "")]
    /\ UNCHANGED <<providerVars, registryVars, idVars, sessionVars, fwd,
                   opsStarted, modeVars>>

\* _ = call.Hangup(ctx) of the call that was not answered
HangupUnanswered(t) ==
    /\ th[t].pc = "ic_hangup"
    /\ \E ok \in BOOLEAN : Hangup(th[t].call, ok)
    /\ th' = [th EXCEPT ![t] = Effect([@ EXCEPT !.pc = "ic_remove"], "hangup")]
    /\ UNCHANGED <<providerVars, registryVars, idVars, sessionVars, fwd,
                   opsStarted, modeVars>>

\* mutant of removeCall: the entry is left in the map
removeCallKeeps(id) == calls' = calls /\ evicted' = evicted

\* removeCall: delete(m.calls, callID) under the write lock
removeCall(id) ==
    /\ calls' = [calls EXCEPT ![id] = 0]
    /\ evicted' = IF calls[id] # 0 THEN evicted \cup {id} ELSE evicted

\* m.removeCall(callID); return nil, "", fmt.Errorf("call not answered")
RemoveUnanswered(t) ==
    /\ th[t].pc = "ic_remove"
    /\ CallsMuFree
    /\ removeCall(th[t].callID)
    /\ th' = [th EXCEPT ![t] =
                Returned(Effect([@ EXCEPT !.state = 0], "remove"),
                         "call not answered", "")]
    /\ UNCHANGED <<providerVars, callsMu, idVars, sessionVars, legVars, fwd,
                   opsStarted, modeVars>>

(***************************************************************************)
(* ContinueCall, SpeakToUser, EndCall: each starts with getCall(callID).   *)
(***************************************************************************)
\* the locals after the lookup of an operation op on id with message m
Lookup(op, id, m) ==
    IF getCall(id) = 0
    THEN Returned(Entered(op, id, m), "call not found", "")
    ELSE [Entered(op, id, m) EXCEPT !.state = getCall(id)]

BeginContinueCall(t) ==
    /\ CanBegin(t)
    /\ CallsMuFree
    /\ opsStarted' = opsStarted + 1
    /\ \E id \in CallIds, m \in Messages("ContinueCall") :
        LET r == Lookup("ContinueCall", id, m) IN
        th' = [th EXCEPT ![t] = IF r.pc = "done" THEN r ELSE EnterSpeak(r)]
    /\ UNCHANGED <<providerVars, registryVars, idVars, sessionVars, legVars,
                   fwd, modeVars>>

BeginSpeakToUser(t) ==
    /\ CanBegin(t)
    /\ CallsMuFree
    /\ opsStarted' = opsStarted + 1
    /\ \E id \in CallIds, m \in Messages("SpeakToUser") :
        LET r == Lookup("SpeakToUser", id, m) IN
        th' = [th EXCEPT ![t] = IF r.pc = "done" THEN r ELSE EnterSpeak(r)]
    /\ UNCHANGED <<providerVars, registryVars, idVars, sessionVars, legVars,
                   fwd, modeVars>>

\* EndCall speaks a non-empty final message before it hangs up
BeginEndCall(t) ==
    /\ CanBegin(t)
    /\ CallsMuFree
    /\ opsStarted' = opsStarted + 1
    /\ \E id \in CallIds, m \in Messages("EndCall") :
        LET r == Lookup("EndCall", id, m) IN
        th' = [th EXCEPT ![t] =
                 IF r.pc = "done" THEN r
                 ELSE IF m # "" THEN EnterSpeak(r)
                 ELSE [r EXCEPT !.pc = "ec_hangup"]]
    /\ UNCHANGED <<providerVars, registryVars, idVars, sessionVars, legVars,
                   fwd, modeVars>>

\* where EndCall goes after state.Call.Hangup(ctx) returned (ok: without error)
AfterHangup(r, ok) ==
    IF ok THEN [r EXCEPT !.pc = "ec_remove"]
    ELSE Returned(r, "failed to hangup", "")

\* if err := state.Call.Hangup(ctx); err != nil { return duration, err }
EndCallHangup(t) ==
    /\ th[t].pc = "ec_hangup"
    /\ \E ok \in BOOLEAN :
        /\ Hangup(th[t].state, ok)
        /\ th' = [th EXCEPT ![t] = AfterHangup(Effect(@, "hangup"), ok)]
    /\ UNCHANGED <<providerVars, registryVars, idVars, sessionVars, fwd,
                   opsStarted, modeVars>>

\* m.removeCall(callID); return duration, nil
EndCallRemove(t) ==
    /\ th[t].pc = "ec_remove"
    /\ CallsMuFree
    /\ removeCall(th[t].callID)
    /\ th' = [th EXCEPT ![t] = Returned(Effect(@, "remove"), NoErr, "")]
    /\ UNCHANGED <<providerVars, callsMu, idVars, sessionVars, legVars, fwd,
                   opsStarted, modeVars>>

(***************************************************************************)
(* Close: under the registry's write lock, Hangup on every registered      *)
(* call, then a fresh map; the lock is released when Close returns.        *)
(***************************************************************************)
BeginClose(t) ==
    /\ CanBegin(t)
    /\ CallsMuFree
    /\ opsStarted' = opsStarted + 1
    /\ callsMu' = t
    /\ th' = [th EXCEPT ![t] = [Entered("Close", 0, "") EXCEPT
                                  !.pc = "cl_range", !.pending = Registered]]
    /\ UNCHANGED <<providerVars, calls, evicted, idVars, sessionVars, legVars,
                   fwd, modeVars>>

\* one iteration of `for _, state := range m.calls`
CloseHangup(t) ==
    /\ th[t].pc = "cl_range"
    /\ \E id \in th[t].pending, ok \in BOOLEAN :
        /\ Hangup(calls[id], ok)
        /\ th' = [th EXCEPT ![t] = Effect([@ EXCEPT !.pending = @ \ {id}], "hangup")]
    /\ UNCHANGED <<providerVars, registryVars, idVars, sessionVars, fwd,
                   opsStarted, modeVars>>

\* mutant of CloseReturn: Close stops at the first Hangup and returns
CloseReturnEarly(t) ==
    /\ th[t].pc = "cl_range"
    /\ calls' = [i \in CallIds |-> 0]
    /\ evicted' = evicted \cup Registered
    /\ callsMu' = 0
    /\ \E e \in {NoErr, "callsystem close failed"} :
        th' = [th EXCEPT ![t] = Returned(Effect(@, "clear"), e, "")]
    /\ UNCHANGED <<providerVars, idVars, sessionVars, legVars, fwd,
                   opsStarted, modeVars>>

\* m.calls = make(map...); the call system's Close(); the deferred Unlock
CloseReturn(t) ==
    /\ th[t].pc = "cl_range"
    /\ th[t].pending = {}
    /\ calls' = [i \in CallIds |-> 0]
    /\ evicted' = evicted \cup Registered
    /\ callsMu' = 0
    /\ \E e \in {NoErr, "callsystem close failed"} :
        th' = [th EXCEPT ![t] = Returned(Effect(@, "clear"), e, "")]
    /\ UNCHANGED <<providerVars, idVars, sessionVars, legVars, fwd,
                   opsStarted, modeVars>>

(***************************************************************************)
(* The callers.                                                            *)
(***************************************************************************)
\* where an operation is suspended: the answer wait, the frame delivery of
\* speak and the select of listen
CancelPoints == {"ic_wait", "sp_stream", "ls_loop"}

\* the initiate_call tool's handler: the output it builds from what
\* InitiateCall returned in r (the zero InitiateCallOutput on an error)
InitiateCallOutput(r) ==
    IF r.err # NoErr THEN [CallID |-> 0, Response |-> ""]
    ELSE [CallID |-> ID[r.state], Response |-> r.response]

\* the caller cancels the context of the operation thread t runs
CtxCancel(t) ==
    /\ th[t].pc \in CancelPoints
    /\ ~th[t].ctxDone
    /\ th' = [th EXCEPT ![t].ctxDone = TRUE]
    /\ fwd' = {IF f.owner = t THEN Forwarder(f.call, t, TRUE) ELSE f : f \in fwd}
    /\ UNCHANGED <<providerVars, registryVars, idVars, sessionVars, legVars,
                   opsStarted, modeVars>>

\* the caller has taken the result; the goroutine is gone
Return(t) ==
    /\ th[t].pc = "done"
    /\ th' = [th EXCEPT ![t] = IdleThread]
    /\ UNCHANGED <<providerVars, registryVars, idVars, sessionVars, legVars,
                   fwd, opsStarted, modeVars>>

\* Return touches nothing but the returned goroutine's own locals, so it is
\* taken before any other step: the other threads need not be interleaved
\* with a result waiting to be taken.
Next ==
    \/ \E t \in Threads : Return(t)
    \/ /\ \A u \in Threads : th[u].pc # "done"
       /\ \/ Initialize
          \/ \E t \in Threads :
              \/ BeginInitiateCall(t) \/ MakeCall(t) \/ GenerateCallID(t)
              \/ StoreCall(t) \/ WaitForAnswer(t) \/ HangupUnanswered(t)
              \/ RemoveUnanswered(t)
              \/ BeginContinueCall(t) \/ BeginSpeakToUser(t) \/ BeginEndCall(t)
              \/ EndCallHangup(t) \/ EndCallRemove(t)
              \/ BeginClose(t) \/ CloseHangup(t) \/ CloseReturn(t)
              \/ AddTurnLock(t) \/ AddTurnAppend(t) \/ AddTurnUnlock(t)
              \/ SpeakTransport(t) \/ SpeakSynthesize(t) \/ SpeakStream(t)
              \/ ListenTransport(t) \/ ListenStart(t)
              \/ ListenCancelled(t) \/ ListenTimeout(t) \/ ListenClosed(t)
              \/ ListenEvent(t) \/ ListenReturn(t)
              \/ CtxCancel(t)
          \/ \E f \in fwd : FwdRead(f)

Spec == Init /\ [][Next]_vars

SeqSpec == SeqInit /\ [][Next]_vars

(***************************************************************************)
(* Properties.                                                             *)
(***************************************************************************)
\* thread t's operation op has returned
Done(t, op) == th[t].pc = "done" /\ th[t].op = op

IsPrefix(p, q) == Len(p) <= Len(q) /\ \A i \in 1 .. Len(p) : p[i] = q[i]

\* the content of the last assistant turn of a log ("<none>" if it has none)
RECURSIVE LastAssistant(_)
LastAssistant(conv) ==
    IF conv = <<>> THEN "<none>"
    ELSE IF conv[Len(conv)].Role = "assistant" THEN conv[Len(conv)].Content
    ELSE LastAssistant(SubSeq(conv, 1, Len(conv) - 1))

\* C1: an EndCall that got past the lookup leaves its call id out of the
\* registry when it returns, whether or not Hangup returned an error.
C1_EndCallEvicts ==
    \A t \in Threads :
        Done(t, "EndCall") /\ th[t].err # "call not found"
            => calls[th[t].callID] = 0

\* C2: with no operation in progress, a CallState is in the registry exactly
\* if Hangup has not been invoked on its leg and the leg has not ended.
C2_RegisteredIffLive ==
    (\A t \in Threads : th[t].pc = "idle")
        => \A k \in Legs :
             ID[k] # 0 =>
                (calls[ID[k]] = k <=> (hangups[k] = 0 /\ leg[k] # "ended"))

\* thread t runs an InitiateCall whose answer wait has ended without an
\* answer: every status poll returned a status other than Answered
NotAnswered(t) ==
    /\ th[t].op = "InitiateCall"
    /\ "insert" \in th[t].effects
    /\ th[t].pc \in {"ic_hangup", "ic_remove", "done"}
    /\ "turn" \notin th[t].effects

\* C3 as claimed: the session of a call that is never answered is in the
\* registry at no point of the operation.
C3_NeverRegistered ==
    \A t \in Threads : NotAnswered(t) => ID[th[t].call] \notin Registered

\* C3 as amended: when an InitiateCall whose call was never answered returns,
\* its session is not in the registry and the result is call-not-answered
\* with no CallState.
C3_NotRegisteredOnReturn ==
    \A t \in Threads :
        NotAnswered(t) /\ th[t].pc = "done"
            => /\ ID[th[t].call] \notin Registered
               /\ th[t].err = "call not answered"
               /\ th[t].state = 0

\* an InitiateCall has polled to the deadline, hung up, removed and returned
C3_Witness ==
    \E t \in Threads :
        /\ NotAnswered(t) /\ th[t].pc = "done"
        /\ {"hangup", "remove"} \subseteq th[t].effects

\* C4: Hangup is invoked at most once on a call leg, and has been invoked
\* once the leg's session has left the registry.
C4_HangupOnce ==
    \A k \in Legs :
        /\ hangups[k] <= 1
        /\ (ID[k] # 0 /\ calls[ID[k]] = 0
              /\ \A t \in Threads : th[t].call # k)
             => hangups[k] = 1

\* C5: the turn log of every CallState is the sequence of the turns in the
\* order their AddTurn calls took the lock: all of them while no AddTurn
\* holds the lock, and all but possibly the last while one does; and every
\* step leaves the log as it was or with turns added at its end.
C5_AppendOnly ==
    /\ [](\A k \in Legs :
            /\ IsPrefix(Conversation[k], lockOrder[k])
            /\ Len(lockOrder[k]) <= Len(Conversation[k]) + 1
            /\ mu[k] = 0 => Conversation[k] = lockOrder[k])
    /\ [][\A k \in Legs : IsPrefix(Conversation[k], Conversation'[k])]_vars

\* one AddTurn holds the lock of a CallState that has turns already, and
\* another goroutine waits in AddTurn for the same lock
C5_Witness ==
    \E t, u \in Threads :
        /\ t # u
        /\ th[t].state = th[u].state
        /\ th[t].pc = "at_unlock"
        /\ th[u].pc = "at_lock"
        /\ Len(Conversation[th[t].state]) >= 2

(***************************************************************************)
(* listen's termination.  The callers are sequential and no history is     *)
(* kept, so the recognizer may go on emitting events for ever.  The        *)
(* goroutine running listen keeps being scheduled and the timer fires;     *)
(* nothing is assumed of the recognizer, of the caller's context or of     *)
(* the forwarding goroutine.                                               *)
(***************************************************************************)
LiveInit ==
    InitBase /\ config = DefaultConfig /\ serialized = TRUE /\ recording = FALSE

ListenFairness ==
    \A t \in Threads :
        /\ WF_vars(ListenTimeout(t))
        /\ WF_vars(ListenTransport(t))
        /\ WF_vars(ListenStart(t))
        /\ WF_vars(AddTurnLock(t))
        /\ WF_vars(AddTurnAppend(t))
        /\ WF_vars(AddTurnUnlock(t))
        /\ WF_vars(ListenReturn(t))

LiveSpec == LiveInit /\ [][Next]_vars /\ ListenFairness

\* thread t is inside listen (the AddTurn of the user turn included)
InListen(t) ==
    \/ th[t].pc \in {"ls_transport", "ls_start", "ls_loop", "ls_ret"}
    \/ th[t].pc \in {"at_lock", "at_append", "at_unlock"} /\ th[t].retpc = "ls_ret"

\* C6: every listen that has been entered returns.
C6_ListenReturns == \A t \in Threads : InListen(t) ~> ~InListen(t)

\* a listen is about to return after the timer fired or the stream closed
\* with nothing recognized, its forwarding goroutine still blocked in Read
C6_Witness ==
    \E t \in Threads :
        /\ th[t].pc = "ls_ret"
        /\ th[t].err = NoErr
        /\ th[t].transcript = ""
        /\ Forwarder(th[t].state, t, FALSE) \in fwd

SpeakOps == {"InitiateCall", "ContinueCall", "SpeakToUser", "EndCall"}

\* thread t's speak has recorded its turn and gone on (or returned) and no
\* later step of the operation has added a turn
Spoken(t) ==
    /\ th[t].op \in SpeakOps
    /\ \/ th[t].pc \in {"sp_transport", "sp_synth", "sp_stream"}
       \/ th[t].effects \cap {"transport", "synth", "write"} # {}

\* C7: from the moment speak looks at the transport, and when it returns
\* (with or without an error), the last assistant turn of the session's log
\* is the message it was given.
C7_RecordBeforeSend ==
    \A t \in Threads :
        Spoken(t) => LastAssistant(Conversation[th[t].state]) = th[t].message

\* a speak has failed on a frame write, its turn being the last of the log
C7_Witness ==
    \E t \in Threads :
        /\ Done(t, "SpeakToUser")
        /\ th[t].err = "failed to write audio"
        /\ Len(Conversation[th[t].state]) >= 3
        /\ Conversation[th[t].state][Len(Conversation[th[t].state])]
             = Turn("assistant", th[t].message)

\* thread t's listen received exactly one event: a final one with text
OneFinalEvent(t) ==
    /\ Len(th[t].heard) = 1
    /\ th[t].heard[1].IsFinal
    /\ ~th[t].heard[1].Error
    /\ th[t].heard[1].Transcript # ""

\* C8: an InitiateCall that succeeded after its listen received one final
\* event with text T returns a call id and T, its session is in the registry
\* under that id, and the session's log is [assistant: message, user: T].
C8_InitiateRoundTrip ==
    \A t \in Threads :
        Done(t, "InitiateCall") /\ th[t].err = NoErr /\ OneFinalEvent(t)
            => /\ th[t].callID # 0
               /\ th[t].response = th[t].heard[1].Transcript
               /\ calls[th[t].callID] = th[t].state
               /\ ID[th[t].state] = th[t].callID
               /\ Conversation[th[t].state]
                    = << Turn("assistant", th[t].message),
                         Turn("user", th[t].heard[1].Transcript) >>
               /\ LastUserMessage[th[t].state] = th[t].heard[1].Transcript

\* the second InitiateCall of a run has returned the text of its final event
C8_Witness ==
    \E t \in Threads :
        /\ Done(t, "InitiateCall") /\ th[t].err = NoErr /\ OneFinalEvent(t)
        /\ th[t].response = "b"
        /\ th[t].callID = 2

\* thread t's listen has returned to its operation's caller, having
\* received no final event and no error event, and not because of ctx
EndedUnresolved(t) ==
    /\ th[t].pc = "done"
    /\ th[t].op \in {"InitiateCall", "ContinueCall"}
    /\ "fwd" \in th[t].effects
    /\ th[t].err # "context canceled"
    /\ \A i \in 1 .. Len(th[t].heard) :
         ~th[t].heard[i].IsFinal /\ ~th[t].heard[i].Error

\* the transcript of the last event of h ("" if h is empty)
LastTranscript(h) == IF h = <<>> THEN "" ELSE h[Len(h)].Transcript

\* the last non-empty transcript among the events of h ("" if there is none)
RECURSIVE LastNonEmpty(_)
LastNonEmpty(h) ==
    IF h = <<>> THEN ""
    ELSE IF h[Len(h)].Transcript # "" THEN h[Len(h)].Transcript
    ELSE LastNonEmpty(SubSeq(h, 1, Len(h) - 1))

\* C9 as claimed: a listen ended by the stream's close or the timeout before
\* any final event returns, without error, the transcript of the last
\* non-final event it received.
C9_LastNonFinal ==
    \A t \in Threads :
        EndedUnresolved(t)
            => th[t].err = NoErr /\ th[t].response = LastTranscript(th[t].heard)

\* C9 as amended: such a listen returns, without error, the last non-empty
\* transcript among the non-final events it received (empty if none).
C9_LastNonEmptyNonFinal ==
    \A t \in Threads :
        EndedUnresolved(t)
            => th[t].err = NoErr /\ th[t].response = LastNonEmpty(th[t].heard)

\* a listen that received a fragment and then an empty fragment has returned
C9_Witness ==
    \E t \in Threads :
        /\ EndedUnresolved(t)
        /\ Len(th[t].heard) = 2
        /\ th[t].heard[1].Transcript # ""
        /\ th[t].heard[2].Transcript = ""
        /\ th[t].response = th[t].heard[1].Transcript

LookupOps == {"ContinueCall", "SpeakToUser", "EndCall"}

\* C10: the step by which ContinueCall, SpeakToUser or EndCall is called on
\* an id that is not in the registry ends the operation with call-not-found
\* and changes no session, no call leg, no lock, no forwarder and not the
\* registry.
C10_NotFound ==
    [][\A t \in Threads :
         (th[t].pc = "idle" /\ th'[t].op \in LookupOps
            /\ calls[th'[t].callID] = 0)
           => /\ th'[t].pc = "done"
              /\ th'[t].err = "call not found"
              /\ th'[t].response = ""
              /\ th'[t].effects = {}
              /\ UNCHANGED <<registryVars, sessionVars, legVars, idVars, fwd,
                             providerVars>>]_vars

\* an EndCall on an id that was evicted before has failed with call-not-found
C10_Witness ==
    \E t \in Threads :
        /\ Done(t, "EndCall")
        /\ th[t].err = "call not found"
        /\ \E k \in Legs : ID[k] = th[t].callID /\ hangups[k] = 1
        /\ Registered # {}

\* thread t's InitiateCall has returned an error after its call was answered
\* (the greeting's turn was recorded, so the answer wait had succeeded)
FailedAfterAnswer(t) ==
    /\ Done(t, "InitiateCall")
    /\ "turn" \in th[t].effects
    /\ th[t].err # NoErr

\* C11: an InitiateCall that fails in speak or listen after the call was
\* answered returns the error and leaves the session in the registry, with
\* no Hangup invoked on its leg and nothing removed.
C11_FailedSpeechKeepsSession ==
    \A t \in Threads :
        FailedAfterAnswer(t)
            => /\ calls[th[t].callID] = th[t].state
               /\ th[t].state = th[t].call
               /\ hangups[th[t].call] = 0
               /\ leg[th[t].call] = "answered"
               /\ th[t].effects \cap {"hangup", "remove"} = {}
               /\ th[t].response = ""

\* an InitiateCall has returned the error of its listen (the recognition
\* could not be started) with its session registered
C11_Witness ==
    \E t \in Threads :
        /\ FailedAfterAnswer(t)
        /\ th[t].err = "failed to start transcription"
        /\ calls[th[t].callID] = th[t].state

\* C12: when the initiate_call tool returns, the session its invocation
\* created is either not in the registry or named by the call_id of the
\* tool's output.
C12_SessionAddressable ==
    \A t \in Threads :
        (Done(t, "InitiateCall") /\ th[t].call # 0 /\ ID[th[t].call] # 0
           /\ calls[ID[th[t].call]] = th[t].call)
            => InitiateCallOutput(th[t]).CallID = ID[th[t].call]

\* Close's range loop on thread t takes one session off those still to be
\* hung up
CloseRangeStep(t) == th[t].pc = "cl_range" /\ th'[t].pending # th[t].pending

\* C13: Close starts with every registered session to be hung up; each
\* iteration of its loop invokes Hangup on one of them, whether or not that
\* Hangup returns an error; Close returns only when none is left, and the
\* registry is empty when it returns.
C13_CloseHangsUpAll ==
    /\ [](\A t \in Threads :
            th[t].pc = "cl_range"
              => /\ th[t].pending \subseteq Registered
                 /\ \A id \in Registered \ th[t].pending :
                      hangups[calls[id]] >= 1)
    /\ [][\A t \in Threads :
            /\ (th[t].pc = "idle" /\ th'[t].op = "Close")
                 => th'[t].pending = Registered /\ calls' = calls
            /\ CloseRangeStep(t)
                 => \E id \in th[t].pending :
                      /\ th'[t].pending = th[t].pending \ {id}
                      /\ hangups'[calls[id]] = hangups[calls[id]] + 1
                      /\ calls' = calls
                      /\ th'[t].pc = "cl_range"
            /\ (th[t].pc = "cl_range" /\ th'[t].pc = "done")
                 => /\ th[t].pending = {}
                    /\ \A id \in CallIds : calls'[id] = 0]_vars

\* Close has returned after hanging up two sessions, one of whose Hangup
\* returned an error
C13_Witness ==
    \E t \in Threads :
        /\ Done(t, "Close")
        /\ Registered = {}
        /\ \A k \in 1 .. 2 : hangups[k] = 1
        /\ \E k \in 1 .. 2 : leg[k] # "ended"
        /\ \E k \in 1 .. 2 : leg[k] = "ended"

\* C14: the ids of any two CallStates differ; the id counter never goes
\* down, and an id is given out only by a step that raises the counter to
\* that id; a registry entry is never overwritten by another session.
C14_DistinctIds ==
    /\ [](\A k1, k2 \in Legs :
            (k1 # k2 /\ ID[k1] # 0 /\ ID[k2] # 0) => ID[k1] # ID[k2])
    /\ [](\A k \in Legs : ID[k] <= callCounter)
    /\ [][/\ callCounter' >= callCounter
          /\ \A k \in Legs :
               ID'[k] # ID[k]
                 => /\ ID[k] = 0
                    /\ callCounter' > callCounter
                    /\ ID'[k] = callCounter'
          /\ \A id \in CallIds :
               (calls[id] # 0 /\ calls'[id] # 0) => calls'[id] = calls[id]]_vars

\* two InitiateCalls running at the same time have both registered their
\* sessions, under different ids
C14_Witness ==
    \E t, u \in Threads :
        /\ t # u
        /\ th[t].op = "InitiateCall" /\ th[u].op = "InitiateCall"
        /\ th[t].callID # 0 /\ th[u].callID # 0
        /\ th[t].callID # th[u].callID
        /\ calls[th[t].callID] = th[t].state
        /\ calls[th[u].callID] = th[u].state

\* C15: an InitiateCall whose answer wait ended without an answer (terminal
\* status, deadline or cancelled context) invokes Hangup on the leg once,
\* then evicts the session, also when that Hangup returned an error, and
\* returns call-not-answered.
C15_NonAnswerTearsDown ==
    \A t \in Threads :
        /\ (NotAnswered(t) /\ th[t].pc = "ic_hangup")
             => hangups[th[t].call] = 0 /\ calls[th[t].callID] = th[t].call
        /\ (NotAnswered(t) /\ th[t].pc = "ic_remove")
             => hangups[th[t].call] = 1 /\ calls[th[t].callID] = th[t].call
        /\ (NotAnswered(t) /\ th[t].pc = "done")
             => /\ hangups[th[t].call] = 1
                /\ {"hangup", "remove"} \subseteq th[t].effects
                /\ calls[th[t].callID] = 0
                /\ th[t].err = "call not answered"

\* an InitiateCall cancelled during the answer wait has returned, the
\* session evicted although the Hangup failed
C15_Witness ==
    \E t \in Threads :
        /\ NotAnswered(t) /\ th[t].pc = "done"
        /\ th[t].ctxDone
        /\ hangups[th[t].call] = 1
        /\ leg[th[t].call] = "ringing"
        /\ calls[th[t].callID] = 0

ListenAborts == {"context canceled", "recognition error"}

\* the candidate text after the events of h: the last non-empty transcript
\* among those that carry no error
Partial(h) == LastNonEmpty(SelectSeq(h, LAMBDA e : ~e.Error))

\* thread t's ContinueCall or InitiateCall has returned after its listen was
\* ended by the cancelled context or by an error event
ListenAborted(t) ==
    /\ th[t].pc = "done"
    /\ th[t].op \in {"InitiateCall", "ContinueCall"}
    /\ "fwd" \in th[t].effects
    /\ th[t].err \in ListenAborts

\* C16 as claimed: the operation returns the partial transcript resolved so
\* far together with the error.
C16_PartialToCaller ==
    \A t \in Threads : ListenAborted(t) => th[t].response = Partial(th[t].heard)

\* C16 as amended: listen itself returns the partial transcript with the
\* error, and the operation returns the error with an empty response.
C16_PartialDropped ==
    \A t \in Threads :
        /\ (th[t].pc = "ls_ret" /\ th[t].err \in ListenAborts)
             => th[t].transcript = Partial(th[t].heard)
        /\ ListenAborted(t)
             => th[t].response = "" /\ th[t].transcript = Partial(th[t].heard)

\* a ContinueCall has returned a recognition error and no text, its listen
\* having received a fragment with text before the error event
C16_Witness ==
    \E t \in Threads :
        /\ ListenAborted(t)
        /\ th[t].op = "ContinueCall"
        /\ th[t].err = "recognition error"
        /\ Len(th[t].heard) = 2
        /\ th[t].heard[1].Transcript # ""
        /\ th[t].transcript = th[t].heard[1].Transcript
        /\ th[t].response = ""

\* C17: a SpeakToUser whose context was cancelled while speak was
\* delivering frames (the only point it can be cancelled at) does not return
\* success.
C17_CancelInterruptsSpeak ==
    \A t \in Threads :
        (Done(t, "SpeakToUser") /\ th[t].ctxDone) => th[t].err # NoErr

\* thread t takes a step of the operation op it is running
StepOf(t, op) == th[t].op = op /\ th'[t] # th[t]

\* C18: a SpeakToUser never is in listen, never requests a recognition or
\* starts a forwarder and never records a user turn; it calls AddTurn once
\* (unless the id is not found), and its steps leave LastUserMessage and the
\* forwarders alone and change the logs only by appending the assistant turn
\* with its message to its session's log.
C18_SpeakToUserOnlySpeaks ==
    /\ [](\A t \in Threads :
            th[t].op = "SpeakToUser"
              => /\ th[t].pc \notin {"ls_transport", "ls_start", "ls_loop", "ls_ret"}
                 /\ th[t].effects \cap {"recog", "fwd"} = {}
                 /\ th[t].role # "user"
                 /\ th[t].pc \in {"at_lock", "at_append"} => "turn" \notin th[t].effects
                 /\ (th[t].pc \notin {"at_lock", "at_append"}
                       /\ th[t].err # "call not found") => "turn" \in th[t].effects)
    /\ [][\A t \in Threads :
            StepOf(t, "SpeakToUser")
              => /\ LastUserMessage' = LastUserMessage
                 /\ fwd' = fwd
                 /\ \/ Conversation' = Conversation
                    \/ /\ th[t].pc = "at_append"
                       /\ Conversation' =
                            [Conversation EXCEPT ![th[t].state] =
                               Append(@, Turn("assistant", th[t].message))]]_vars

\* a SpeakToUser has succeeded on a session that had a user turn: its turn
\* is the last of the log and LastUserMessage is still the user's text
C18_Witness ==
    \E t \in Threads :
        /\ Done(t, "SpeakToUser") /\ th[t].err = NoErr
        /\ Len(Conversation[th[t].state]) = 3
        /\ Conversation[th[t].state][2].Role = "user"
        /\ Conversation[th[t].state][3] = Turn("assistant", th[t].message)
        /\ LastUserMessage[th[t].state] = Conversation[th[t].state][2].Content
        /\ "write" \in th[t].effects

\* thread t's EndCall with a final message has found its session and returned
\* (a goroutine that panicked on a nil provider has not returned)
EndedWithMessage(t) ==
    /\ Done(t, "EndCall")
    /\ th[t].message # ""
    /\ th[t].err \notin {"call not found", "panic"}

C20_OnlyTeardownEvicts ==
    /\ [](\A t \in Threads :
            (th[t].pc = "done" /\ th[t].op \in {"ContinueCall", "SpeakToUser"}
               /\ th[t].err \notin {NoErr, "call not found"})
              => calls[th[t].callID] = th[t].state /\ th[t].state # 0)
    /\ [][/\ \A t \in Threads :
               (StepOf(t, "ContinueCall") \/ StepOf(t, "SpeakToUser"))
                  => calls' = calls
          /\ calls' # calls
               => \E t \in Threads :
                     /\ th'[t] # th[t]
                     /\ th[t].op \in {"InitiateCall", "EndCall", "Close"}]_vars

\* a ContinueCall has failed on a recognition error, its session registered
C20_Witness ==
    \E t \in Threads :
        /\ Done(t, "ContinueCall")
        /\ th[t].err = "recognition error"
        /\ calls[th[t].callID] = th[t].state
        /\ th[t].state # 0

\* the next statement of the operation thread t is running
Proceed(t) ==
    \/ MakeCall(t) \/ GenerateCallID(t) \/ StoreCall(t) \/ WaitForAnswer(t)
    \/ HangupUnanswered(t) \/ RemoveUnanswered(t)
    \/ EndCallHangup(t) \/ EndCallRemove(t)
    \/ AddTurnLock(t) \/ AddTurnAppend(t) \/ AddTurnUnlock(t)
    \/ SpeakTransport(t) \/ SpeakSynthesize(t) \/ SpeakStream(t)
    \/ ListenTransport(t) \/ ListenStart(t) \/ ListenTimeout(t)
    \/ ListenClosed(t) \/ ListenEvent(t) \/ ListenReturn(t)

\* thread t is in the middle of one of the four conversation operations
Running(t) == th[t].op \in SpeakOps /\ th[t].pc \notin {"idle", "done"}

\* the call ids the step of thread t acts on
ActsOn(t) == {th[t].callID, th'[t].callID} \ {0}

\* C21: a step of a conversation operation leaves alone the turn log, the
\* LastUserMessage, the call leg, the id and the registry entry of every
\* call whose id is not the one the operation acts on; an operation
\* suspended in the answer wait, in the frame delivery of speak or in the
\* select of listen holds neither the registry lock nor a session lock; and
\* while one is suspended, an operation running on another call id can take
\* its next step.
C21_Independent ==
    /\ [][\A t \in Threads :
            (th'[t] # th[t] /\ (th[t].op \in SpeakOps \/ th'[t].op \in SpeakOps))
              => \A j \in Legs :
                   (ID[j] # 0 /\ ID[j] \notin ActsOn(t))
                     => /\ Conversation'[j] = Conversation[j]
                        /\ LastUserMessage'[j] = LastUserMessage[j]
                        /\ leg'[j] = leg[j]
                        /\ hangups'[j] = hangups[j]
                        /\ ID'[j] = ID[j]
                        /\ calls'[ID[j]] = calls[ID[j]]]_vars
    /\ [](\A u \in Threads :
            (th[u].op \in SpeakOps /\ th[u].pc \in CancelPoints)
              => /\ callsMu # u
                 /\ \A k \in Legs : mu[k] # u
                 /\ \A t \in Threads :
                      (t # u /\ Running(t) /\ th[t].callID # th[u].callID)
                        => ENABLED Proceed(t))

\* while an InitiateCall is suspended in listen, an EndCall on another,
\* earlier call has hung up, evicted its session and returned; the suspended
\* operation's session is still registered
C21_Witness ==
    \E t, u \in Threads :
        /\ t # u
        /\ th[u].op = "InitiateCall" /\ th[u].pc = "ls_loop"
        /\ calls[th[u].callID] = th[u].state
        /\ Len(Conversation[th[u].state]) = 1
        /\ Done(t, "EndCall") /\ th[t].err = NoErr
        /\ th[t].callID # th[u].callID
        /\ calls[th[t].callID] = 0


(***************************************************************************)
(* The provider selection.  The manager is built from any configuration    *)
(* that passes Validate; the callers are sequential and no history is      *)
(* kept.                                                                   *)
(***************************************************************************)
CfgInit ==
    /\ InitBase
    /\ config \in {c \in Configs : Validate(c)}
    /\ serialized = TRUE
    /\ recording = FALSE

CfgSpec == CfgInit /\ [][Next]_vars

\* Initialize has returned nil
Initialized ==
    publicURL /\ callSystem /\ ttsProvider # NoProvider /\ sttProvider # NoProvider

\* C22: once Initialize has succeeded, the TTS provider the manager holds is
\* the one config.TTSProvider selects and the STT provider the one
\* config.STTProvider selects.
C22_SelectedProviders ==
    Initialized
        => ttsProvider = config.TTSProvider /\ sttProvider = config.STTProvider


\* thread t's listen consumes an event in this step: the event
Consumed(t) == th'[t].heard[Len(th'[t].heard)]

Consumes(t) == th[t].pc = "ls_loop" /\ Len(th'[t].heard) = Len(th[t].heard) + 1

\* the i-th event thread t's listen consumed is final and carries no error
FinalAt(t, i) == th[t].heard[i].IsFinal /\ ~th[t].heard[i].Error

\* C23 as claimed: a final event without error is the last event its listen
\* consumes, the listen has left its loop, and its result is that event's
\* transcript, whatever the transcript.
C23_FinalResolves ==
    \A t \in Threads : \A i \in 1 .. Len(th[t].heard) :
        FinalAt(t, i)
            => /\ i = Len(th[t].heard)
               /\ th[t].pc # "ls_loop"
               /\ th[t].transcript = th[t].heard[i].Transcript

\* C23 as amended: a final event without error whose transcript is not empty
\* is the last event its listen consumes: the step that consumes it leaves
\* the loop with that transcript as the result, to record the user turn and
\* return; a final event with an empty transcript is treated as a fragment
\* without text: the listen stays in its loop with its candidate unchanged.
C23_FinalWithTextResolves ==
    /\ [](\A t \in Threads : \A i \in 1 .. Len(th[t].heard) :
            (FinalAt(t, i) /\ th[t].heard[i].Transcript # "")
              => /\ i = Len(th[t].heard)
                 /\ th[t].pc # "ls_loop"
                 /\ th[t].transcript = th[t].heard[i].Transcript
                 /\ th[t].err = NoErr
                 /\ th[t].pc = "done" => th[t].response = th[t].transcript)
    /\ [][\A t \in Threads :
            (Consumes(t) /\ Consumed(t).IsFinal /\ ~Consumed(t).Error)
              => IF Consumed(t).Transcript # ""
                 THEN /\ th'[t].pc = "at_lock"
                      /\ th'[t].retpc = "ls_ret"
                      /\ th'[t].transcript = Consumed(t).Transcript
                      /\ th'[t].content = Consumed(t).Transcript
                 ELSE /\ th'[t].pc = "ls_loop"
                      /\ th'[t].transcript = th[t].transcript]_vars

\* a listen has consumed a final event with no text, stayed in its loop,
\* consumed a final event with text and returned that text
C23_Witness ==
    \E t \in Threads :
        /\ Done(t, "ContinueCall") /\ th[t].err = NoErr
        /\ Len(th[t].heard) = 2
        /\ FinalAt(t, 1) /\ th[t].heard[1].Transcript = ""
        /\ FinalAt(t, 2) /\ th[t].heard[2].Transcript = "a"
        /\ th[t].response = "a"


\* the log conv ends with the turns of tail
EndsWith(conv, tail) ==
    /\ Len(conv) >= Len(tail)
    /\ SubSeq(conv, Len(conv) - Len(tail) + 1, Len(conv)) = tail

\* the log of thread t's session shows no user turn after the assistant turn
\* of t's operation
NoUserTurn(t) ==
    EndsWith(Conversation[th[t].state], <<Turn("assistant", th[t].message)>>)

\* the log of thread t's session shows one user turn, with text, after the
\* assistant turn of t's operation
OneUserTurn(t, text) ==
    EndsWith(Conversation[th[t].state],
             <<Turn("assistant", th[t].message), Turn("user", text)>>)

\* C24: a listen changes the log by nothing but one append of a user turn
\* whose text is its result.  Up to that append the log ends with the
\* assistant turn its operation recorded; when listen returns, the log shows
\* one user turn after that assistant turn, with the returned text, if the
\* listen returns without error a text that is not empty, and no user turn
\* otherwise (empty text, or an error, with or without a candidate).
C24_AtMostOneUserTurn ==
    /\ [](\A t \in Threads :
            /\ (InListen(t) /\ th[t].pc \notin {"at_unlock", "ls_ret"})
                 => NoUserTurn(t)
            /\ (InListen(t) /\ th[t].pc = "at_unlock")
                 => OneUserTurn(t, th[t].transcript) /\ th[t].transcript # ""
            /\ (th[t].pc = "ls_ret"
                  \/ (th[t].pc = "done" /\ th[t].op \in {"InitiateCall", "ContinueCall"}
                        /\ "recog" \in th[t].effects))
                 => IF th[t].err = NoErr /\ th[t].transcript # ""
                    THEN OneUserTurn(t, th[t].transcript)
                    ELSE NoUserTurn(t))
    /\ [][\A t \in Threads :
            (InListen(t) /\ Conversation' # Conversation)
              => /\ th[t].pc = "at_append"
                 /\ th[t].transcript # ""
                 /\ th[t].err = NoErr
                 /\ Conversation' =
                      [Conversation EXCEPT ![th[t].state] =
                         Append(@, Turn("user", th[t].transcript))]]_vars

\* a ContinueCall's listen was resolved by the stream's close or the timer
\* after one fragment and has returned: the fragment's text is the one user
\* turn added to a log that had a user turn before
C24_Witness ==
    \E t \in Threads :
        /\ Done(t, "ContinueCall") /\ th[t].err = NoErr
        /\ Len(th[t].heard) = 1 /\ ~th[t].heard[1].IsFinal
        /\ th[t].response = "a"
        /\ OneUserTurn(t, "a")
        /\ Len(Conversation[th[t].state]) = 4


\* the events thread t's listen consumed before its last one
Earlier(t) == SubSeq(th[t].heard, 1, Len(th[t].heard) - 1)

\* C25: the step by which listen consumes an event carrying an error takes
\* it out of its loop to its return, with that error and with the candidate
\* it had (whatever transcript and final mark the error event carries), and
\* changes no log; an error event is the last event its listen consumed, and
\* the listen returns the last non-empty transcript of the events before it
\* with the error, having added no user turn.
C25_ErrorEventAborts ==
    /\ [][\A t \in Threads :
            (Consumes(t) /\ Consumed(t).Error)
              => /\ th'[t].pc = "ls_ret"
                 /\ th'[t].err = "recognition error"
                 /\ th'[t].transcript = th[t].transcript
                 /\ Conversation' = Conversation
                 /\ LastUserMessage' = LastUserMessage]_vars
    /\ [](\A t \in Threads : \A i \in 1 .. Len(th[t].heard) :
            th[t].heard[i].Error
              => /\ i = Len(th[t].heard)
                 /\ th[t].pc \in {"ls_ret", "done"}
                 /\ th[t].err = "recognition error"
                 /\ th[t].transcript = LastNonEmpty(Earlier(t))
                 /\ NoUserTurn(t))

\* a listen is about to return a recognition error with the candidate "a":
\* it consumed the fragment "a" and then an event that carries an error
\* together with a final mark and the transcript "b"
C25_Witness ==
    \E t \in Threads :
        /\ th[t].pc = "ls_ret"
        /\ th[t].err = "recognition error"
        /\ Len(th[t].heard) = 2
        /\ th[t].heard[1] = [Transcript |-> "a", IsFinal |-> FALSE, Error |-> FALSE]
        /\ th[t].heard[2] = [Transcript |-> "b", IsFinal |-> TRUE, Error |-> TRUE]
        /\ th[t].transcript = "a"


\* the audio of the chunks of g that carry audio, in the order of g
RECURSIVE Frames(_)
Frames(g) ==
    IF g = <<>> THEN <<>>
    ELSE IF g[Len(g)].Audio # ""
         THEN Append(Frames(SubSeq(g, 1, Len(g) - 1)), g[Len(g)].Audio)
         ELSE Frames(SubSeq(g, 1, Len(g) - 1))

\* the chunks of g without the last one if that one carries an error
Sound(g) ==
    IF g # <<>> /\ g[Len(g)].Error THEN SubSeq(g, 1, Len(g) - 1) ELSE g

\* C26: the frames a speak has passed to the sink's Write are the audio of
\* the chunks it has received that carry audio, in the order received and
\* each once (the audio of a chunk that carries an error is not written); it
\* has received no chunk after a chunk marked final or carrying an error;
\* and a Write that failed was the last one: its frame is the audio of the
\* last chunk received.
C26_FramesAreChunks ==
    \A t \in Threads :
        LET g == th[t].got IN
        /\ th[t].sent = Frames(Sound(g))
        /\ \A i \in 1 .. Len(g) - 1 : ~g[i].IsFinal /\ ~g[i].Error
        /\ (th[t].pc = "sp_stream" /\ g # <<>>)
             => ~g[Len(g)].IsFinal /\ ~g[Len(g)].Error
        /\ (th[t].pc = "done" /\ th[t].err = "failed to write audio")
             => /\ g # <<>> /\ g[Len(g)].Audio # ""
                /\ th[t].sent[Len(th[t].sent)] = g[Len(g)].Audio
        /\ g # <<>> => th[t].pc \in {"sp_stream", "done"}

\* a SpeakToUser has succeeded after the chunks "x", an empty one and "y"
\* marked final: the frames written are "x" and "y"
C26_Witness ==
    \E t \in Threads :
        /\ Done(t, "SpeakToUser") /\ th[t].err = NoErr
        /\ Len(th[t].got) = 3
        /\ th[t].got[1].Audio = "x" /\ th[t].got[2].Audio = ""
        /\ th[t].got[3].Audio = "y" /\ th[t].got[3].IsFinal
        /\ th[t].sent = <<"x", "y">>

\* C27: a speak that returns success has received a chunk marked final.
C27_SuccessMeansFinal ==
    \A t \in Threads :
        (Done(t, "SpeakToUser") /\ th[t].err = NoErr)
            => /\ th[t].got # <<>>
               /\ th[t].got[Len(th[t].got)].IsFinal


\* thread t takes a step inside the operation it is running
Continues(t) == th[t].op # "none" /\ th'[t].op = th[t].op /\ th'[t] # th[t]

\* C28: within one operation, what has been done is never undone from the
\* record; the dial, the synthesis request and the recognition start are
\* each reached only from the statement before them, with no attempt of
\* theirs on record, and each attempt either records itself and goes on or
\* ends the step's phase: a failed dial, synthesis request or recognition
\* start ends the operation (EndCall goes on to hang up after a failed
\* speak), and a failed frame write ends the speak.  No statement leads back
\* to a step that was attempted.
C28_NoRetry ==
    /\ [](\A t \in Threads :
            /\ th[t].pc = "ic_dial" => th[t].effects = {}
            /\ th[t].pc = "sp_transport"
                 => th[t].effects \cap {"transport", "synth", "write"} = {}
            /\ th[t].pc = "sp_synth"
                 => th[t].effects \cap {"synth", "write"} = {}
            /\ th[t].pc \in {"ls_transport", "ls_start"}
                 => th[t].effects \cap {"recog", "fwd"} = {})
    /\ [][\A t \in Threads :
            Continues(t)
              => /\ th[t].effects \subseteq th'[t].effects
                 /\ th'[t].pc # "ic_dial"
                 /\ th'[t].pc = "sp_synth" => th[t].pc = "sp_transport"
                 /\ th'[t].pc = "ls_start" => th[t].pc = "ls_transport"
                 /\ th[t].pc = "ic_dial"
                      => \/ th'[t].pc = "ic_genid" /\ "dial" \in th'[t].effects
                         \/ th'[t].pc = "done" /\ th'[t].err = "failed to make call"
                 /\ th[t].pc = "sp_synth"
                      => \/ th'[t].pc = "sp_stream" /\ "synth" \in th'[t].effects
                         \/ th'[t].pc = "done"
                              /\ th'[t].err \in {"TTS synthesis failed", "panic"}
                         \/ th'[t].pc = "ec_hangup" /\ th[t].op = "EndCall"
                 /\ th[t].pc = "sp_stream"
                      => /\ th'[t].pc \in {"sp_stream", "done", "ls_transport",
                                           "ec_hangup"}
                         /\ th'[t].err = "failed to write audio"
                              => th'[t].pc = "done"
                 /\ th[t].pc = "ls_start"
                      => \/ th'[t].pc = "ls_loop" /\ "recog" \in th'[t].effects
                         \/ th'[t].pc = "done"
                              /\ th'[t].err \in {"failed to start transcription",
                                                 "panic"}]_vars

\* a ContinueCall has returned the failure of its recognition start, having
\* requested the synthesis and written frames once and started no forwarder
C28_Witness ==
    \E t \in Threads :
        /\ Done(t, "ContinueCall")
        /\ th[t].err = "failed to start transcription"
        /\ {"synth", "write", "recog"} \subseteq th[t].effects
        /\ "fwd" \notin th[t].effects
        /\ th[t].heard = <<>>


\* what speech-out leaves on the record of an operation
SpeechOut == {"turn", "transport", "synth", "write"}

\* thread t's InitiateCall is past its answer wait on the side of the answer
Greeting(t) ==
    /\ th[t].op = "InitiateCall"
    /\ \/ th[t].pc \in {"at_lock", "at_append", "at_unlock", "sp_transport",
                        "sp_synth", "sp_stream", "ls_transport", "ls_start",
                        "ls_loop", "ls_ret"}
       \/ th[t].effects \cap SpeechOut # {}

\* C29: the step that ends the answer wait goes on to the greeting's
\* AddTurn only if it is a status poll that observed Answered, taken before
\* the deadline with the context not cancelled; a cancelled context, the
\* expired deadline or a terminal status sends InitiateCall to the hangup.
\* An InitiateCall is in or past its speech-out only on a leg observed
\* answered, and one that gave up has recorded no turn and requested no
\* synthesis: the session's log is empty.
C29_SpeakOnlyAfterAnswer ==
    /\ [][\A t \in Threads :
            (th[t].pc = "ic_wait" /\ th'[t].pc # "ic_wait")
              => /\ th'[t].pc \in {"at_lock", "ic_hangup"}
                 /\ th'[t].pc = "at_lock"
                      => /\ leg'[th[t].call] = "answered"
                         /\ ~th[t].ctxDone
                         /\ BeforeDeadline(th[t].polls)
                         /\ th'[t].role = "assistant"
                         /\ th'[t].content = th[t].message
                 /\ (th[t].ctxDone \/ ~BeforeDeadline(th[t].polls)
                       \/ leg'[th[t].call] = "ended")
                      => th'[t].pc = "ic_hangup"]_vars
    /\ [](\A t \in Threads :
            /\ Greeting(t) => leg[th[t].call] = "answered"
            /\ (th[t].op = "InitiateCall"
                  /\ (th[t].pc \in {"ic_wait", "ic_hangup", "ic_remove"}
                        \/ (th[t].pc = "done" /\ th[t].err = "call not answered")))
                 => /\ th[t].effects \cap SpeechOut = {}
                    /\ Conversation[th[t].call] = <<>>)

\* an InitiateCall one of whose status polls observed a terminal status is
\* about to hang up: nothing was recorded and no synthesis requested
C29_Witness ==
    \E t \in Threads :
        /\ th[t].op = "InitiateCall" /\ th[t].pc = "ic_hangup"
        /\ leg[th[t].call] = "ended"
        /\ hangups[th[t].call] = 0
        /\ ~th[t].ctxDone
        /\ th[t].effects = {"dial", "insert"}
        /\ Conversation[th[t].call] = <<>>


(***************************************************************************)
(* The answer wait's termination.  The callers are sequential and no       *)
(* history is kept.  The goroutine in waitForAnswer keeps being scheduled: *)
(* Status() and Sleep return and the clock advances; nothing is assumed of *)
(* the statuses reported or of the caller's context.                       *)
(***************************************************************************)
WaitFairness == \A t \in Threads : WF_vars(WaitForAnswer(t))

WaitSpec == LiveInit /\ [][Next]_vars /\ WaitFairness

\* thread t takes a step of waitForAnswer (the step by which the caller
\* cancels its context is none)
WaitStep(t) ==
    /\ th[t].pc = "ic_wait"
    /\ th'[t] # th[t]
    /\ ~(th'[t].ctxDone /\ ~th[t].ctxDone)

\* C30: every answer wait ends.  It takes at most MaxPolls (wait / interval)
\* status polls, each poll that sees neither Answered nor a terminal status
\* counting as one; once they are used up, the next step returns
\* not-answered without another poll, and InitiateCall goes to the hangup.
C30_WaitTerminates ==
    /\ \A t \in Threads : (th[t].pc = "ic_wait") ~> (th[t].pc # "ic_wait")
    /\ [](\A t \in Threads : th[t].polls <= MaxPolls)
    /\ [][\A t \in Threads :
            WaitStep(t)
              => /\ ~BeforeDeadline(th[t].polls)
                      => th'[t].pc = "ic_hangup" /\ leg' = leg
                 /\ th'[t].pc = "ic_wait"
                      => /\ th'[t].polls = th[t].polls + 1
                         /\ BeforeDeadline(th[t].polls)
                         /\ ~th[t].ctxDone
                         /\ leg' = leg]_vars

\* an answer wait has used up its polls on a leg that is still ringing, its
\* context not cancelled
C30_Witness ==
    \E t \in Threads :
        /\ th[t].pc = "ic_wait"
        /\ th[t].polls = MaxPolls
        /\ ~th[t].ctxDone
        /\ leg[th[t].call] = "ringing"


\* the errors speak returns
SpeakErrors ==
    {"no transport", "TTS synthesis failed", "TTS stream error",
     "failed to write audio"}

ListenOps == {"InitiateCall", "ContinueCall"}

\* thread t is inside speak, past the AddTurn of the assistant turn
InSpeak(t) == th[t].pc \in {"sp_transport", "sp_synth", "sp_stream"}

\* C31: in InitiateCall and ContinueCall, listen is entered only by the step
\* with which speak's frame loop ends without error; a step of speak that
\* fails ends the operation with speak's error; and an operation that has
\* returned a speak error has opened no recognition session, started no
\* forwarder, received no event, added no user turn and returns no text.
C31_ListenAfterSpeak ==
    /\ [][\A t \in Threads :
            (Continues(t) /\ th[t].op \in ListenOps)
              => /\ th'[t].pc = "ls_transport" => th[t].pc = "sp_stream"
                 /\ InSpeak(t)
                      => /\ th'[t].pc \in {"sp_synth", "sp_stream",
                                           "ls_transport", "done"}
                         /\ th'[t].pc = "done"
                              => th'[t].err \in SpeakErrors \cup {"panic"}
                         /\ fwd' = fwd
                         /\ Conversation' = Conversation]_vars
    /\ [](\A t \in Threads :
            (th[t].pc = "done" /\ th[t].op \in ListenOps
               /\ th[t].err \in SpeakErrors)
              => /\ th[t].effects \cap {"recog", "fwd"} = {}
                 /\ th[t].heard = <<>>
                 /\ th[t].response = ""
                 /\ NoUserTurn(t)
                 /\ \A f \in fwd : f.owner # t)

\* a ContinueCall has returned the error of a chunk its speak received after
\* a chunk with audio: nothing of listen has happened
C31_Witness ==
    \E t \in Threads :
        /\ Done(t, "ContinueCall")
        /\ th[t].err = "TTS stream error"
        /\ Len(th[t].got) = 2
        /\ th[t].sent = <<"x">>
        /\ th[t].effects \cap {"recog", "fwd"} = {}
        /\ NoUserTurn(t)


\* C32: a call id that has been taken out of the registry is in the registry
\* in no later state; the set of such ids only grows; and the step by which
\* a ContinueCall, SpeakToUser or EndCall is called with such an id ends the
\* operation with call-not-found.
C32_EvictionFinal ==
    /\ [](\A id \in evicted : calls[id] = 0)
    /\ [][/\ evicted \subseteq evicted'
          /\ \A id \in CallIds :
               (calls[id] # 0 /\ calls'[id] = 0) => id \in evicted'
          /\ \A t \in Threads :
               (th[t].pc = "idle" /\ th'[t].op \in LookupOps
                  /\ th'[t].callID \in evicted)
                 => /\ th'[t].pc = "done"
                    /\ th'[t].err = "call not found"]_vars

\* the first call's id was evicted and a second call is registered; a
\* ContinueCall with the first id has failed with call-not-found
C32_Witness ==
    \E t \in Threads :
        /\ Done(t, "ContinueCall")
        /\ th[t].err = "call not found"
        /\ th[t].callID = 1
        /\ evicted = {1}
        /\ calls[2] # 0


\* the content of the last user turn of a log ("" if it has none)
RECURSIVE LastUser(_)
LastUser(conv) ==
    IF conv = <<>> THEN ""
    ELSE IF conv[Len(conv)].Role = "user" THEN conv[Len(conv)].Content
    ELSE LastUser(SubSeq(conv, 1, Len(conv) - 1))

\* thread t is inside AddTurn
InAddTurn(t) == th[t].pc \in {"at_lock", "at_append", "at_unlock"}

\* C33: while no AddTurn holds a session's lock, the session's
\* LastUserMessage is the content of the last user turn of its log (empty if
\* the log has none); and no step of an AddTurn of an assistant turn changes
\* any LastUserMessage.
C33_LastUserMessage ==
    /\ [](\A k \in Legs :
            mu[k] = 0 => LastUserMessage[k] = LastUser(Conversation[k]))
    /\ [][\A t \in Threads :
            (InAddTurn(t) /\ th[t].role = "assistant" /\ th'[t] # th[t])
              => LastUserMessage' = LastUserMessage]_vars

\* a session's log holds the user turn "a", a later user turn "b" and an
\* assistant turn after it; no AddTurn is running and LastUserMessage is "b"
C33_Witness ==
    \E k \in Legs :
        /\ mu[k] = 0
        /\ Len(Conversation[k]) = 5
        /\ Conversation[k][2] = Turn("user", "a")
        /\ Conversation[k][4] = Turn("user", "b")
        /\ Conversation[k][5].Role = "assistant"
        /\ LastUserMessage[k] = "b"


(***************************************************************************)
(* The life of the forwarding goroutines.  The callers are sequential and  *)
(* the history is recorded, so a forwarder is followed after its listen    *)
(* has returned.  Every goroutine running an operation keeps being         *)
(* scheduled and every result is taken by its caller; nothing is assumed   *)
(* of the inbound audio: a Read of audioOut need never return.             *)
(***************************************************************************)
OperationFairness ==
    \A t \in Threads :
        /\ WF_vars(Proceed(t))
        /\ WF_vars(ListenCancelled(t))
        /\ WF_vars(CloseHangup(t) \/ CloseReturn(t))
        /\ WF_vars(Return(t))

FwdSpec == SeqInit /\ [][Next]_vars /\ OperationFairness

\* the forwarder of a listen on leg k that has returned
Orphan(k) == Forwarder(k, 0, TRUE)

\* C34: a forwarding goroutine whose listen has returned eventually exits.
C34_ForwarderExits ==
    \A k \in Legs : (Orphan(k) \in fwd) ~> (Orphan(k) \notin fwd)



(***************************************************************************)
(* The two levels of locks.                                                *)
(***************************************************************************)
\* the next statement of the goroutine t, whatever its operation
Step(t) ==
    Proceed(t) \/ ListenCancelled(t) \/ CloseHangup(t) \/ CloseReturn(t)

\* the positions inside speak, listen and the answer wait
LongRunning ==
    {"ic_wait", "sp_transport", "sp_synth", "sp_stream",
     "ls_transport", "ls_start", "ls_loop", "ls_ret"}

\* the goroutine holding the lock thread t waits for (0: t waits for none)
WaitsFor(t) ==
    CASE th[t].pc = "at_lock" -> mu[th[t].state]
      [] th[t].pc \in {"ic_store", "ic_remove", "ec_remove"} -> callsMu
      [] OTHER -> 0

\* the locks are in the hands of goroutines that wait for no lock, and a
\* goroutine in the middle of an operation can take its next step or waits
\* for a lock whose holder can
NoLockCycle ==
    /\ \A t \in Threads :
         (callsMu = t \/ \E k \in Legs : mu[k] = t) => WaitsFor(t) = 0
    /\ \A t \in Threads :
         th[t].pc \notin {"idle", "done"}
           => \/ ENABLED Step(t)
              \/ /\ WaitsFor(t) \in Threads \ {t}
                 /\ ENABLED Step(WaitsFor(t))

\* no goroutine holds the registry lock inside speak, listen or the answer
\* wait, none holds it together with a session lock, and a session lock is
\* held for one append to the session's own log
LocksApart ==
    \A t \in Threads :
        /\ callsMu = t => th[t].pc \notin LongRunning
        /\ callsMu = t => \A k \in Legs : mu[k] # t
        /\ \A k \in Legs :
             mu[k] = t => /\ th[t].pc \in {"at_append", "at_unlock"}
                          /\ th[t].state = k
                          /\ \A j \in Legs : mu[j] = t => j = k

\* C35 as stated: no thread holds the registry lock inside speak, listen or
\* the answer wait, or together with a session lock; the registry lock is
\* held for nothing but one insert, lookup or delete and a session lock for
\* nothing but one turn append; no lock waits in a cycle and no operation is
\* stuck.
C35_LocksHeldBriefly ==
    /\ LocksApart
    /\ callsMu = 0
    /\ NoLockCycle

\* C35: the same, except that Close holds the registry lock from its start
\* to its return, over the Hangup of every registered call and the
\* replacement of the map.
C35_LocksHeldBrieflyOrByClose ==
    /\ LocksApart
    /\ \A t \in Threads :
         callsMu = t => th[t].op = "Close" /\ th[t].pc = "cl_range"
    /\ NoLockCycle

\* Close holds the registry lock with a Hangup still to do while the other
\* goroutine, in the speak of an operation on a registered call, holds that
\* session's lock for its append
C35_Witness ==
    \E t, u \in Threads :
        /\ callsMu = t /\ th[t].pc = "cl_range" /\ th[t].pending # {}
        /\ th[u].pc = "at_append" /\ mu[th[u].state] = u
        /\ calls[th[u].callID] = th[u].state

(***************************************************************************)
(* The readers of a call's inbound audio.                                  *)
(***************************************************************************)
\* the forwarding goroutines blocked in a Read of leg k's audioOut
Readers(k) == {f \in fwd : f.call = k}

\* C36: with the operations issued one at a time, at most one forwarding
\* goroutine reads a call's inbound audio at any time, so that none is left
\* to write what it reads to the recognition session of a listen that has
\* returned, and the audio read during a listen reaches that listen's session.
C36_OneForwarder ==
    \A k \in Legs :
        /\ Cardinality(Readers(k)) <= 1
        /\ \A t \in Threads :
             (th[t].pc = "ls_loop" /\ th[t].state = k)
               => \A f \in Readers(k) : f.owner = t

(***************************************************************************)
(* The order of the turns in a log.                                        *)
(***************************************************************************)
\* the roles of the turns of conv, in order
Roles(conv) == [i \in 1 .. Len(conv) |-> conv[i].Role]

\* C37: with the operations issued one at a time, a turn log that is not
\* empty starts with an assistant turn and every user turn in it comes right
\* after an assistant turn (so no two user turns are adjacent); the step that
\* appends a user turn is taken by an InitiateCall or a ContinueCall at a
\* moment at which the log ends with the assistant turn that carries this
\* operation's own message.
C37_UserFollowsAssistant ==
    /\ [](\A k \in Legs :
            LET conv == Conversation[k] IN
            /\ Len(conv) > 0 => conv[1].Role = "assistant"
            /\ \A i \in 1 .. Len(conv) :
                 conv[i].Role = "user"
                   => i > 1 /\ conv[i - 1].Role = "assistant")
    /\ [][\A k \in Legs :
            (Len(Conversation'[k]) = Len(Conversation[k]) + 1
               /\ Conversation'[k][Len(Conversation'[k])].Role = "user")
              => \E t \in Threads :
                   /\ th[t].pc = "at_append" /\ th[t].state = k
                   /\ th[t].op \in {"InitiateCall", "ContinueCall"}
                   /\ Len(Conversation[k]) > 0
                   /\ Conversation[k][Len(Conversation[k])]
                        = Turn("assistant", th[t].message)]_vars

\* the log of a call after an InitiateCall, a SpeakToUser and a ContinueCall
\* that has just returned the user's answer: two assistant turns in a row,
\* and each user turn after the assistant turn of its own operation
C37_Witness ==
    \E t \in Threads :
        /\ Done(t, "ContinueCall") /\ th[t].err = NoErr
        /\ th[t].response # ""
        /\ Roles(Conversation[th[t].state])
             = <<"assistant", "user", "assistant", "assistant", "user">>
        /\ Conversation[th[t].state][4] = Turn("assistant", th[t].message)
        /\ Conversation[th[t].state][5] = Turn("user", th[t].response)

(***************************************************************************)
(* The providers at the time of a call.                                    *)
(***************************************************************************)
\* Initialize has set all three providers
AllProviders ==
    callSystem /\ ttsProvider # NoProvider /\ sttProvider # NoProvider

\* C38: an InitiateCall has failed with the not-initialized error without
\* dialing, or runs with the call system, the TTS and the STT provider all
\* set; no call leg is answered, and no goroutine reaches the synthesis or
\* the recognition, with a provider missing.
C38_ProvidersBeforeUse ==
    /\ \A t \in Threads :
         (th[t].op = "InitiateCall" /\ th[t].pc # "idle")
           => \/ /\ th[t].pc = "done" /\ th[t].err = "not initialized"
                 /\ th[t].call = 0
              \/ AllProviders
    /\ \A k \in Legs : leg[k] = "answered" => AllProviders
    /\ \A t \in Threads :
         /\ th[t].pc = "sp_synth" => ttsProvider # NoProvider
         /\ th[t].pc = "ls_start" => sttProvider # NoProvider

(***************************************************************************)
(* Close and the operations in flight.                                     *)
(***************************************************************************)
\* the call legs the backend has created so far
Dialed == {k \in Legs : leg[k] # "none"}

\* C39: when Close has returned, the registry is empty and Hangup has been
\* invoked on every call leg dialed before or during the Close, the legs of
\* the InitiateCalls in flight included.
C39_ShutdownComplete ==
    \A t \in Threads :
        Done(t, "Close")
          => /\ Registered = {}
             /\ \A k \in Dialed : hangups[k] >= 1
=============================================================================
